---- MODULE Spec2Model ----
(***************************************************************************)
(* Model of the deterministic core of llm-eti: the 2024 bracket lookup and *)
(* liability functions (llm_eti/tax_brackets.py), the ETI formulas         *)
(* (llm_eti/edsl_client.py, llm_eti/gpt_utils.py, llm_eti/analysis.py),   *)
(* the tax examples the PKNF lab prompts present to the respondent, the    *)
(* answer parser (llm_eti/survey.py) and the scenario generator and survey *)
(* loop (llm_eti/experiment.py).                                           *)
(*                                                                         *)
(* Numbers.  Dollar amounts are integers.  A marginal rate of the bracket  *)
(* table is an integer number of percent (0.22 is 22), so a liability is   *)
(* an integer number of cents ("dollar-percent").  Python floats are       *)
(* modelled by exact arithmetic; rounding error of IEEE doubles is not     *)
(* modelled.                                                               *)
(***************************************************************************)
EXTENDS Integers, Sequences, FiniteSets, TLC

VARIABLES
    brackets,   \* the module-level table BRACKETS_2024
    call,       \* the last call of a tax_brackets function and its outcome
    eti,        \* the last call of an ETI function and its outcome
    lab,        \* the last PKNF lab prompt that was built
    exp         \* the call of an experiment.py function and its progress

vars == <<brackets, call, eti, lab, exp>>

(***************************************************************************)
(* Outcomes of a Python call: a returned value, a returned None, or a      *)
(* raised exception.                                                       *)
(***************************************************************************)
Value(v) == [kind |-> "value", val |-> <<v>>, exc |-> "-"]
ReturnNone == [kind |-> "none", val |-> <<>>, exc |-> "-"]
Raise(e) == [kind |-> "raise", val |-> <<>>, exc |-> e]
NotCalled == [kind |-> "idle", val |-> <<>>, exc |-> "-"]

(***************************************************************************)
(* tax_brackets.py                                                         *)
(***************************************************************************)
FilingStatus ==
    {"single", "married_filing_jointly", "married_filing_separately",
     "head_of_household"}

\* float("inf"): every income of the model is below it.
Inf == 2147483647

BRACKETS_2024 ==
    [st \in FilingStatus |->
        CASE st = "single" ->
                <<<<11600, 10>>, <<47150, 12>>, <<100525, 22>>, <<191950, 24>>,
                  <<243725, 32>>, <<609350, 35>>, <<Inf, 37>>>>
          [] st = "married_filing_jointly" ->
                <<<<23200, 10>>, <<94300, 12>>, <<201050, 22>>, <<383900, 24>>,
                  <<487450, 32>>, <<731200, 35>>, <<Inf, 37>>>>
          [] st = "married_filing_separately" ->
                <<<<11600, 10>>, <<47150, 12>>, <<100525, 22>>, <<191950, 24>>,
                  <<243725, 32>>, <<365600, 35>>, <<Inf, 37>>>>
          [] st = "head_of_household" ->
                <<<<16550, 10>>, <<63100, 12>>, <<100500, 22>>, <<191950, 24>>,
                  <<243700, 32>>, <<609350, 35>>, <<Inf, 37>>>>]

\* Mutant: a bracket's upper bound is excluded from the bracket.
RECURSIVE MarginalScanStrict(_, _, _)
MarginalScanStrict(bs, taxable_income, i) ==
    IF i > Len(bs) THEN bs[Len(bs)][2]
    ELSE IF taxable_income < bs[i][1] THEN bs[i][2]
    ELSE MarginalScanStrict(bs, taxable_income, i + 1)

\* The for loop of get_marginal_rate_2024 from bracket i on.
RECURSIVE MarginalScan(_, _, _)
MarginalScan(bs, taxable_income, i) ==
    IF i > Len(bs) THEN bs[Len(bs)][2]
    ELSE IF taxable_income <= bs[i][1] THEN bs[i][2]
    ELSE MarginalScan(bs, taxable_income, i + 1)

get_marginal_rate_2024(tbl, taxable_income, filing_status) ==
    IF taxable_income < 0 THEN Raise("ValueError")
    ELSE Value(MarginalScan(tbl[filing_status], taxable_income, 1))

\* The for loop of get_bracket_info from bracket i on; None is <<>>.
RECURSIVE BracketInfoScan(_, _, _, _)
BracketInfoScan(bs, taxable_income, i, prev_ceiling) ==
    IF i > Len(bs)
    THEN [marginal_rate |-> bs[Len(bs)][2],
          bracket_floor |-> bs[Len(bs) - 1][1],
          bracket_ceiling |-> <<>>,
          next_rate |-> <<>>]
    ELSE IF taxable_income <= bs[i][1]
    THEN [marginal_rate |-> bs[i][2],
          bracket_floor |-> prev_ceiling,
          bracket_ceiling |-> IF bs[i][1] # Inf THEN <<bs[i][1]>> ELSE <<>>,
          next_rate |-> IF i + 1 <= Len(bs) THEN <<bs[i + 1][2]>> ELSE <<>>]
    ELSE BracketInfoScan(bs, taxable_income, i + 1, bs[i][1])

get_bracket_info(tbl, taxable_income, filing_status) ==
    IF taxable_income < 0 THEN Raise("ValueError")
    ELSE Value(BracketInfoScan(tbl[filing_status], taxable_income, 1, 0))

\* Mutant: the partial bracket is charged from 0 instead of from prev_ceiling.
RECURSIVE LiabilityLoopFromZero(_, _, _, _, _)
LiabilityLoopFromZero(bs, taxable_income, i, tax, prev_ceiling) ==
    IF i > Len(bs) THEN tax
    ELSE IF taxable_income <= bs[i][1]
    THEN tax + taxable_income * bs[i][2]
    ELSE LiabilityLoopFromZero(bs, taxable_income, i + 1,
                       tax + (bs[i][1] - prev_ceiling) * bs[i][2], bs[i][1])

\* Mutant: the charge of the brackets below the income is not carried over.
RECURSIVE LiabilityLoopDropBracket(_, _, _, _, _)
LiabilityLoopDropBracket(bs, taxable_income, i, tax, prev_ceiling) ==
    IF i > Len(bs) THEN tax
    ELSE IF taxable_income <= bs[i][1]
    THEN (taxable_income - prev_ceiling) * bs[i][2]
    ELSE LiabilityLoopDropBracket(bs, taxable_income, i + 1,
                       tax + (bs[i][1] - prev_ceiling) * bs[i][2], bs[i][1])

\* The for loop of calculate_tax_liability from bracket i on, in cents.
RECURSIVE LiabilityLoop(_, _, _, _, _)
LiabilityLoop(bs, taxable_income, i, tax, prev_ceiling) ==
    IF i > Len(bs) THEN tax
    ELSE IF taxable_income <= bs[i][1]
    THEN tax + (taxable_income - prev_ceiling) * bs[i][2]
    ELSE LiabilityLoop(bs, taxable_income, i + 1,
                       tax + (bs[i][1] - prev_ceiling) * bs[i][2], bs[i][1])

\* Mutant: the negative-income check is missing.
calculate_tax_liability_unchecked(tbl, taxable_income, filing_status) ==
    IF taxable_income = 0 THEN Value(0)
    ELSE Value(LiabilityLoop(tbl[filing_status], taxable_income, 1, 0, 0))

calculate_tax_liability(tbl, taxable_income, filing_status) ==
    IF taxable_income < 0 THEN Raise("ValueError")
    ELSE IF taxable_income = 0 THEN Value(0)
    ELSE Value(LiabilityLoop(tbl[filing_status], taxable_income, 1, 0, 0))

\* A quotient of two integers in lowest terms with a positive denominator.
RECURSIVE Gcd(_, _)
Gcd(a, b) == IF b = 0 THEN a ELSE Gcd(b, a % b)

Abs(x) == IF x < 0 THEN -x ELSE x

Quot(n, d) ==
    LET g == Gcd(Abs(n), Abs(d))
        s == IF d < 0 THEN -1 ELSE 1
    IN  [num |-> s * (n \div g), den |-> s * (d \div g)]

\* tax / taxable_income as a rate: cents over (dollars * 100).
calculate_effective_rate(tbl, taxable_income, filing_status) ==
    IF taxable_income <= 0 THEN Value(Quot(0, 1))
    ELSE LET tax == calculate_tax_liability(tbl, taxable_income, filing_status)
         IN  Value(Quot(tax.val[1], taxable_income * 100))

(***************************************************************************)
(* Float arithmetic of the ETI functions.                                  *)
(*                                                                         *)
(* response_to_eti compares against the tolerance 1e-10, so the model      *)
(* needs rates that differ by less than that.  A number is a polynomial    *)
(* a0 + a1*eps + a2*eps^2 + ... in eps = 1e-10 with integer coefficients,  *)
(* written <<a0, a1, a2, ...>>, and a float is a quotient [n, d] of two    *)
(* such polynomials.  All coefficients stay far below 1e10, so the sign of *)
(* a polynomial is the sign of its first non-zero coefficient, and the     *)
(* arithmetic below is exact.                                              *)
(***************************************************************************)
Max(a, b) == IF a >= b THEN a ELSE b

RECURSIVE SumTo(_, _)
SumTo(f, n) == IF n = 0 THEN 0 ELSE f[n] + SumTo(f, n - 1)

PGet(p, i) == IF i >= 1 /\ i <= Len(p) THEN p[i] ELSE 0

RECURSIVE PTrim(_)
PTrim(p) ==
    IF Len(p) > 1 /\ p[Len(p)] = 0 THEN PTrim(SubSeq(p, 1, Len(p) - 1)) ELSE p

PAdd(p, q) == PTrim([i \in 1..Max(Len(p), Len(q)) |-> PGet(p, i) + PGet(q, i)])

PNeg(p) == [i \in 1..Len(p) |-> -p[i]]

PMul(p, q) ==
    PTrim([k \in 1..(Len(p) + Len(q) - 1) |->
              SumTo([i \in 1..Len(p) |-> p[i] * PGet(q, k - i + 1)], Len(p))])

RECURSIVE PSignFrom(_, _)
PSignFrom(p, i) ==
    IF i > Len(p) THEN 0
    ELSE IF p[i] > 0 THEN 1
    ELSE IF p[i] < 0 THEN -1
    ELSE PSignFrom(p, i + 1)

PSign(p) == PSignFrom(p, 1)

RECURSIVE PContent(_, _)
PContent(p, i) == IF i > Len(p) THEN 0 ELSE Gcd(Abs(p[i]), PContent(p, i + 1))

\* The quotient n / d (d # 0) with the common integer factor removed.
Frac(n, d) ==
    IF PSign(n) = 0 THEN [n |-> <<0>>, d |-> <<1>>]
    ELSE LET g == PSign(d) * Gcd(PContent(n, 1), PContent(d, 1))
         IN  [n |-> PTrim([i \in 1..Len(n) |-> n[i] \div g]),
              d |-> PTrim([i \in 1..Len(d) |-> d[i] \div g])]

FInt(k) == Frac(<<k>>, <<1>>)
FSub(a, b) == Frac(PAdd(PMul(a.n, b.d), PNeg(PMul(b.n, a.d))), PMul(a.d, b.d))
FMul(a, b) == Frac(PMul(a.n, b.n), PMul(a.d, b.d))
FQuot(a, b) == Frac(PMul(a.n, b.d), PMul(a.d, b.n))
FSign(a) == PSign(a.n) * PSign(a.d)
FIsZero(a) == FSign(a) = 0
FEq(a, b) == FIsZero(FSub(a, b))
FLess(a, b) == FSign(FSub(a, b)) < 0
FAbs(a) == IF FSign(a) < 0 THEN FSub(FInt(0), a) ELSE a

\* Python's a / b on floats.
PyDiv(a, b) == IF FIsZero(b) THEN Raise("ZeroDivisionError") ELSE Value(FQuot(a, b))

\* The literal 1e-10 of response_to_eti.
Tolerance == Frac(<<0, 1>>, <<1>>)

\* The rate p percent plus e * 1e-12.
RateOf(p, e) == Frac(<<p, e>>, <<100>>)

(***************************************************************************)
(* survey.py: the response categories and their midpoints, in percent.     *)
(***************************************************************************)
IncomeResponse ==
    {"much_lower", "somewhat_lower", "about_same", "somewhat_higher", "much_higher"}

\* Mutant: each category has the near end of its range instead of the midpoint.
RESPONSE_MIDPOINTS_near_end ==
    [r \in IncomeResponse |->
        CASE r = "much_lower" -> Frac(<<-10>>, <<100>>)
          [] r = "somewhat_lower" -> Frac(<<-2>>, <<100>>)
          [] r = "about_same" -> Frac(<<0>>, <<100>>)
          [] r = "somewhat_higher" -> Frac(<<2>>, <<100>>)
          [] r = "much_higher" -> Frac(<<10>>, <<100>>)]

RESPONSE_MIDPOINTS ==
    [r \in IncomeResponse |->
        CASE r = "much_lower" -> Frac(<<-15>>, <<100>>)
          [] r = "somewhat_lower" -> Frac(<<-6>>, <<100>>)
          [] r = "about_same" -> Frac(<<0>>, <<100>>)
          [] r = "somewhat_higher" -> Frac(<<6>>, <<100>>)
          [] r = "much_higher" -> Frac(<<15>>, <<100>>)]

(***************************************************************************)
(* calculate_eti.  An income argument is <<x>>, or <<>> for None (what a   *)
(* failed parse of the answer hands on).                                   *)
(***************************************************************************)
\* Mutant: the change of the net-of-tax rate is taken relative to the new rate.
EDSLTryBlockNewBase(initial_rate, new_rate, initial_income, new_income) ==
    IF new_income = <<>> \/ initial_income = <<>> THEN Raise("TypeError")
    ELSE
    LET percent_change_income ==
            PyDiv(FSub(new_income[1], initial_income[1]), initial_income[1])
        percent_change_net_of_tax_rate ==
            PyDiv(FSub(FSub(FInt(1), new_rate), FSub(FInt(1), initial_rate)),
                  FSub(FInt(1), new_rate))
    IN  IF percent_change_income.kind = "raise" THEN percent_change_income
        ELSE IF percent_change_net_of_tax_rate.kind = "raise"
        THEN percent_change_net_of_tax_rate
        ELSE IF FIsZero(percent_change_net_of_tax_rate.val[1]) THEN ReturnNone
        ELSE PyDiv(percent_change_income.val[1],
                   percent_change_net_of_tax_rate.val[1])

\* Mutant: the change of income is taken as a magnitude.
EDSLTryBlockAbsChange(initial_rate, new_rate, initial_income, new_income) ==
    IF new_income = <<>> \/ initial_income = <<>> THEN Raise("TypeError")
    ELSE
    LET percent_change_income ==
            PyDiv(FAbs(FSub(new_income[1], initial_income[1])), initial_income[1])
        percent_change_net_of_tax_rate ==
            PyDiv(FSub(FSub(FInt(1), new_rate), FSub(FInt(1), initial_rate)),
                  FSub(FInt(1), initial_rate))
    IN  IF percent_change_income.kind = "raise" THEN percent_change_income
        ELSE IF percent_change_net_of_tax_rate.kind = "raise"
        THEN percent_change_net_of_tax_rate
        ELSE IF FIsZero(percent_change_net_of_tax_rate.val[1]) THEN ReturnNone
        ELSE PyDiv(percent_change_income.val[1],
                   percent_change_net_of_tax_rate.val[1])

\* The try block of EDSLClient.calculate_eti.
EDSLTryBlock(initial_rate, new_rate, initial_income, new_income) ==
    IF new_income = <<>> \/ initial_income = <<>> THEN Raise("TypeError")
    ELSE
    LET percent_change_income ==
            PyDiv(FSub(new_income[1], initial_income[1]), initial_income[1])
        percent_change_net_of_tax_rate ==
            PyDiv(FSub(FSub(FInt(1), new_rate), FSub(FInt(1), initial_rate)),
                  FSub(FInt(1), initial_rate))
    IN  IF percent_change_income.kind = "raise" THEN percent_change_income
        ELSE IF percent_change_net_of_tax_rate.kind = "raise"
        THEN percent_change_net_of_tax_rate
        ELSE IF FIsZero(percent_change_net_of_tax_rate.val[1]) THEN ReturnNone
        ELSE PyDiv(percent_change_income.val[1],
                   percent_change_net_of_tax_rate.val[1])

\* Mutant: only TypeError is caught.
EDSLClient_calculate_eti_uncaught(initial_rate, new_rate, initial_income, new_income) ==
    LET o == EDSLTryBlock(initial_rate, new_rate, initial_income, new_income)
    IN  IF o.kind = "raise" /\ o.exc \in {"TypeError"} THEN ReturnNone ELSE o

\* try ... except (ZeroDivisionError, TypeError): return None
EDSLClient_calculate_eti(initial_rate, new_rate, initial_income, new_income) ==
    LET o == EDSLTryBlock(initial_rate, new_rate, initial_income, new_income)
    IN  IF o.kind = "raise" /\ o.exc \in {"ZeroDivisionError", "TypeError"}
        THEN ReturnNone ELSE o

\* The try block of GPTClient.calculate_eti.
GPTTryBlock(initial_rate, new_rate, initial_income, new_income) ==
    IF new_income = <<>> \/ initial_income = <<>> THEN Raise("TypeError")
    ELSE
    LET percent_change_income ==
            PyDiv(FSub(new_income[1], initial_income[1]), initial_income[1])
        percent_change_net_of_tax_rate ==
            PyDiv(FSub(FSub(FInt(1), new_rate), FSub(FInt(1), initial_rate)),
                  FSub(FInt(1), initial_rate))
    IN  IF percent_change_income.kind = "raise" THEN percent_change_income
        ELSE IF percent_change_net_of_tax_rate.kind = "raise"
        THEN percent_change_net_of_tax_rate
        ELSE IF FIsZero(percent_change_net_of_tax_rate.val[1]) THEN ReturnNone
        ELSE PyDiv(percent_change_income.val[1],
                   percent_change_net_of_tax_rate.val[1])

\* try ... except ZeroDivisionError: return None; except Exception: return None
GPTClient_calculate_eti(initial_rate, new_rate, initial_income, new_income) ==
    LET o == GPTTryBlock(initial_rate, new_rate, initial_income, new_income)
    IN  IF o.kind = "raise" THEN ReturnNone ELSE o

(***************************************************************************)
(* analysis.py: response_to_eti                                            *)
(***************************************************************************)
\* Mutant: the change of the tax rate is used, not of the net-of-tax rate.
response_to_eti_tax_rate(response, current_rate, new_rate) ==
    LET pct_change_income == RESPONSE_MIDPOINTS[response]
        net_of_tax_current == FSub(FInt(1), current_rate)
    IN  IF FIsZero(net_of_tax_current) THEN ReturnNone
        ELSE LET pct_change_net_of_tax ==
                     FQuot(FSub(new_rate, current_rate), net_of_tax_current)
             IN  IF FLess(FAbs(pct_change_net_of_tax), Tolerance) THEN ReturnNone
                 ELSE PyDiv(pct_change_income, pct_change_net_of_tax)

\* Mutant: the rate change is compared with 0 instead of the tolerance.
response_to_eti_exact(response, current_rate, new_rate) ==
    LET pct_change_income == RESPONSE_MIDPOINTS[response]
        net_of_tax_current == FSub(FInt(1), current_rate)
        net_of_tax_new == FSub(FInt(1), new_rate)
    IN  IF FIsZero(net_of_tax_current) THEN ReturnNone
        ELSE LET pct_change_net_of_tax ==
                     FQuot(FSub(net_of_tax_new, net_of_tax_current), net_of_tax_current)
             IN  IF FIsZero(pct_change_net_of_tax) THEN ReturnNone
                 ELSE PyDiv(pct_change_income, pct_change_net_of_tax)

\* Mutant: a midpoint of 0 is taken for a missing value.
response_to_eti_falsy(response, current_rate, new_rate) ==
    LET pct_change_income == RESPONSE_MIDPOINTS[response]
        net_of_tax_current == FSub(FInt(1), current_rate)
        net_of_tax_new == FSub(FInt(1), new_rate)
    IN  IF FIsZero(net_of_tax_current) \/ FIsZero(pct_change_income) THEN ReturnNone
        ELSE LET pct_change_net_of_tax ==
                     FQuot(FSub(net_of_tax_new, net_of_tax_current), net_of_tax_current)
             IN  IF FLess(FAbs(pct_change_net_of_tax), Tolerance) THEN ReturnNone
                 ELSE PyDiv(pct_change_income, pct_change_net_of_tax)

response_to_eti(response, current_rate, new_rate) ==
    LET pct_change_income == RESPONSE_MIDPOINTS[response]
        net_of_tax_current == FSub(FInt(1), current_rate)
        net_of_tax_new == FSub(FInt(1), new_rate)
    IN  IF FIsZero(net_of_tax_current) THEN ReturnNone
        ELSE LET pct_change_net_of_tax ==
                     FQuot(FSub(net_of_tax_new, net_of_tax_current), net_of_tax_current)
             IN  IF FLess(FAbs(pct_change_net_of_tax), Tolerance) THEN ReturnNone
                 ELSE PyDiv(pct_change_income, pct_change_net_of_tax)

(***************************************************************************)
(* The PKNF lab prompts.  A prompt is modelled by what its text tells the  *)
(* respondent about the tax: the threshold and the two rates (in percent), *)
(* what the high rate is said to apply to, the worked examples (income,    *)
(* tax and, where the text states it, the income kept: <<>> if not), and   *)
(* whether the text says that the larger example income leaves less        *)
(* after-tax income.                                                       *)
(***************************************************************************)
TaxScheduleValues == {"flat25", "flat50", "progressive"}

\* Python's f"{n / d:.0f}" for n / d >= 0: round half to even.
RoundHalfEven(n, d) ==
    LET q == n \div d
        r == n % d
    IN  IF 2 * r < d THEN q
        ELSE IF 2 * r > d THEN q + 1
        ELSE IF q % 2 = 0 THEN q ELSE q + 1

\* Mutant: the high rate is charged on the excess over bkt1 only.
generate_tax_scenario_excess(rate1, rate2, max_labor, bkt1, wage_rate, round_number) ==
    IF rate1 = rate2
    THEN Value([threshold |-> bkt1, low |-> rate1, high |-> rate2,
                high_on |-> "all incomes",
                examples |-> {[income |-> bkt1 + 20,
                               tax |-> RoundHalfEven(rate1 * 420, 100),
                               keep |-> <<>>]},
                says_less |-> FALSE,
                offer |-> max_labor * wage_rate])
    ELSE Value([threshold |-> bkt1, low |-> rate1, high |-> rate2,
                high_on |-> "entire income",
                examples |-> {[income |-> bkt1 + 20,
                               tax |-> RoundHalfEven(rate1 * bkt1 + rate2 * 20, 100),
                               keep |-> <<>>]},
                says_less |-> FALSE,
                offer |-> max_labor * wage_rate])

\* TaxBehaviorReplication.generate_tax_scenario: rate1 and rate2 in percent.
generate_tax_scenario(rate1, rate2, max_labor, bkt1, wage_rate, round_number) ==
    IF rate1 = rate2
    THEN Value([threshold |-> bkt1, low |-> rate1, high |-> rate2,
                high_on |-> "all incomes",
                examples |-> {[income |-> bkt1 + 20,
                               tax |-> RoundHalfEven(rate1 * 420, 100),
                               keep |-> <<>>]},
                says_less |-> FALSE,
                offer |-> max_labor * wage_rate])
    ELSE Value([threshold |-> bkt1, low |-> rate1, high |-> rate2,
                high_on |-> "entire income",
                examples |-> {[income |-> bkt1 + 20,
                               tax |-> RoundHalfEven(rate2 * (bkt1 + 20), 100),
                               keep |-> <<>>]},
                says_less |-> FALSE,
                offer |-> max_labor * wage_rate])

\* survey.create_pknf_lab_prompt: int(x) truncates.
create_pknf_lab_prompt(round_num, labor_endowment, tax_schedule, wage_per_unit) ==
    LET earned == labor_endowment * wage_per_unit
    IN  IF tax_schedule = "flat25"
        THEN Value([threshold |-> 0, low |-> 25, high |-> 25,
                    high_on |-> "all incomes",
                    examples |-> {[income |-> earned,
                                   tax |-> (earned * 25) \div 100,
                                   keep |-> <<(earned * 75) \div 100>>]},
                    says_less |-> FALSE,
                    offer |-> earned])
        ELSE IF tax_schedule = "flat50"
        THEN Value([threshold |-> 0, low |-> 50, high |-> 50,
                    high_on |-> "all incomes",
                    examples |-> {[income |-> earned,
                                   tax |-> (earned * 50) \div 100,
                                   keep |-> <<(earned * 50) \div 100>>]},
                    says_less |-> FALSE,
                    offer |-> earned])
        ELSE Value([threshold |-> 400, low |-> 25, high |-> 50,
                    high_on |-> "income above the threshold",
                    examples |-> {[income |-> 400, tax |-> 100, keep |-> <<300>>],
                                  [income |-> 420, tax |-> 100 + 10, keep |-> <<310>>]},
                    says_less |-> FALSE,
                    offer |-> earned])

\* pknf_types.TaxSchedule.description: <<threshold, low, high, high_on>>.
TaxSchedule_description(schedule) ==
    IF schedule = "flat25" THEN <<0, 25, 25, "all incomes">>
    ELSE IF schedule = "flat50" THEN <<0, 50, 50, "all incomes">>
    ELSE <<400, 25, 50, "income above the threshold">>

\* EDSLClient.create_lab_experiment_survey: the note on the progressive tax
\* is part of the prompt under every schedule.
create_lab_experiment_survey(round_num, tax_schedule, labor_endowment, wage_per_unit) ==
    LET tax_desc == TaxSchedule_description(tax_schedule)
    IN  Value([threshold |-> tax_desc[1], low |-> tax_desc[2], high |-> tax_desc[3],
               high_on |-> tax_desc[4],
               examples |-> {[income |-> 400, tax |-> 100, keep |-> <<>>],
                             [income |-> 420, tax |-> 110, keep |-> <<>>]},
               says_less |-> TRUE,
               offer |-> labor_endowment * wage_per_unit])

(***************************************************************************)
(* survey.py: parse_response.  A text is a sequence of characters; None    *)
(* is <<>> and a category c is <<c>>.                                      *)
(***************************************************************************)
LowerCase ==
    <<"a", "b", "c", "d", "e", "f", "g", "h", "i", "j", "k", "l", "m", "n", "o",
      "p", "q", "r", "s", "t", "u", "v", "w", "x", "y", "z">>
UpperCase ==
    <<"A", "B", "C", "D", "E", "F", "G", "H", "I", "J", "K", "L", "M", "N", "O",
      "P", "Q", "R", "S", "T", "U", "V", "W", "X", "Y", "Z">>

\* str.upper() on one character.
UpperChar(c) ==
    IF \E i \in 1..Len(LowerCase) : LowerCase[i] = c
    THEN UpperCase[CHOOSE i \in 1..Len(LowerCase) : LowerCase[i] = c]
    ELSE c

upper(text) == [i \in 1..Len(text) |-> UpperChar(text[i])]

Whitespace == {" ", "\n", "\t"}

\* str.strip(): leading and trailing whitespace removed.
RECURSIVE strip(_)
strip(text) ==
    IF text = <<>> THEN text
    ELSE IF text[1] \in Whitespace THEN strip(Tail(text))
    ELSE IF text[Len(text)] \in Whitespace THEN strip(SubSeq(text, 1, Len(text) - 1))
    ELSE text

\* word in text
Contains(text, word) ==
    \E j \in 1..(Len(text) - Len(word) + 1) :
        SubSeq(text, j, j + Len(word) - 1) = word

\* The members of IncomeResponse in definition order.
IncomeResponseOrder ==
    <<"much_lower", "somewhat_lower", "about_same", "somewhat_higher", "much_higher">>

\* response.value.upper()
ValueUpper(response) ==
    CASE response = "much_lower" -> <<"M", "U", "C", "H", "_", "L", "O", "W", "E", "R">>
      [] response = "somewhat_lower" -> <<"S", "O", "M", "E", "W", "H", "A", "T", "_", "L", "O", "W", "E", "R">>
      [] response = "about_same" -> <<"A", "B", "O", "U", "T", "_", "S", "A", "M", "E">>
      [] response = "somewhat_higher" -> <<"S", "O", "M", "E", "W", "H", "A", "T", "_", "H", "I", "G", "H", "E", "R">>
      [] response = "much_higher" -> <<"M", "U", "C", "H", "_", "H", "I", "G", "H", "E", "R">>

\* The elements of a regular expression: a literal, \s*, .* and (?:...)?.
Lit(s) == [k |-> "lit", s |-> s, p |-> <<>>]
WsStar == [k |-> "ws", s |-> <<>>, p |-> <<>>]
DotStar == [k |-> "dot", s |-> <<>>, p |-> <<>>]
Opt(p) == [k |-> "opt", s |-> <<>>, p |-> p]

\* re.match of the pattern p at position j of text t.
RECURSIVE MatchAt(_, _, _)
MatchAt(p, t, j) ==
    IF p = <<>> THEN TRUE
    ELSE LET e == Head(p)
             rest == Tail(p)
         IN  CASE e.k = "lit" ->
                    /\ j + Len(e.s) - 1 <= Len(t)
                    /\ SubSeq(t, j, j + Len(e.s) - 1) = e.s
                    /\ MatchAt(rest, t, j + Len(e.s))
               [] e.k = "ws" ->
                    \E n \in 0..(Len(t) - j + 1) :
                        /\ \A i \in j..(j + n - 1) : t[i] \in Whitespace
                        /\ MatchAt(rest, t, j + n)
               [] e.k = "dot" ->
                    \E n \in 0..(Len(t) - j + 1) :
                        /\ \A i \in j..(j + n - 1) : t[i] # "\n"
                        /\ MatchAt(rest, t, j + n)
               [] e.k = "opt" ->
                    MatchAt(e.p \o rest, t, j) \/ MatchAt(rest, t, j)

\* re.search(pattern, text) is not None
Search(p, t) == \E j \in 1..(Len(t) + 1) : MatchAt(p, t, j)

\* The dict patterns of parse_response: the fallback patterns of a category.
patterns(response) ==
    CASE response = "much_lower" ->
        <<<<Lit(<<"M", "U", "C", "H">>), WsStar, Lit(<<"L", "O", "W", "E", "R">>)>>,
          <<Lit(<<"D", "E", "C", "R", "E", "A", "S", "E">>), DotStar, Lit(<<"1", "0", "%">>)>>,
          <<Lit(<<"D", "O", "W", "N">>), DotStar, Lit(<<"1", "0", "%">>)>>>>
      [] response = "somewhat_lower" ->
        <<<<Lit(<<"S", "O", "M", "E", "W", "H", "A", "T">>), WsStar, Lit(<<"L", "O", "W", "E", "R">>)>>,
          <<Lit(<<"S", "L", "I", "G", "H", "T", "L", "Y">>), WsStar, Lit(<<"L", "O", "W", "E", "R">>)>>,
          <<Lit(<<"D", "E", "C", "R", "E", "A", "S", "E">>), DotStar, Lit(<<"2", "-", "1", "0", "%">>)>>>>
      [] response = "about_same" ->
        <<<<Lit(<<"A", "B", "O", "U", "T">>), WsStar, Opt(<<Lit(<<"T", "H", "E">>), WsStar>>), Lit(<<"S", "A", "M", "E">>)>>,
          <<Lit(<<"S", "T", "A", "Y">>), DotStar, Lit(<<"S", "A", "M", "E">>)>>,
          <<Lit(<<"N", "O">>), WsStar, Lit(<<"C", "H", "A", "N", "G", "E">>)>>,
          <<Lit(<<"U", "N", "C", "H", "A", "N", "G", "E", "D">>)>>>>
      [] response = "somewhat_higher" ->
        <<<<Lit(<<"S", "O", "M", "E", "W", "H", "A", "T">>), WsStar, Lit(<<"H", "I", "G", "H", "E", "R">>)>>,
          <<Lit(<<"S", "L", "I", "G", "H", "T", "L", "Y">>), WsStar, Lit(<<"H", "I", "G", "H", "E", "R">>)>>,
          <<Lit(<<"I", "N", "C", "R", "E", "A", "S", "E">>), DotStar, Lit(<<"2", "-", "1", "0", "%">>)>>>>
      [] response = "much_higher" ->
        <<<<Lit(<<"M", "U", "C", "H">>), WsStar, Lit(<<"H", "I", "G", "H", "E", "R">>)>>,
          <<Lit(<<"I", "N", "C", "R", "E", "A", "S", "E">>), DotStar, Lit(<<"1", "0", "%">>)>>,
          <<Lit(<<"U", "P">>), DotStar, Lit(<<"1", "0", "%">>)>>>>

\* The first category, in definition order from index i on, whose upper-case
\* name occurs in text; <<>> if none does.
RECURSIVE ExactMatch(_, _)
ExactMatch(text, i) ==
    IF i > Len(IncomeResponseOrder) THEN <<>>
    ELSE IF Contains(text, ValueUpper(IncomeResponseOrder[i]))
    THEN <<IncomeResponseOrder[i]>>
    ELSE ExactMatch(text, i + 1)

\* The first category, in dict order from index i on, one of whose patterns
\* is found in text; <<>> if none is.
RECURSIVE PartialMatch(_, _)
PartialMatch(text, i) ==
    IF i > Len(IncomeResponseOrder) THEN <<>>
    ELSE LET pattern_list == patterns(IncomeResponseOrder[i])
         IN  IF \E n \in 1..Len(pattern_list) : Search(pattern_list[n], text)
             THEN <<IncomeResponseOrder[i]>>
             ELSE PartialMatch(text, i + 1)

\* Mutant: the text is not put in upper case before the names are looked for.
parse_response_case_sensitive(response_text) ==
    IF response_text = <<>> THEN <<>>
    ELSE LET text == strip(response_text)
             exact == ExactMatch(text, 1)
         IN  IF exact # <<>> THEN exact ELSE PartialMatch(text, 1)

parse_response(response_text) ==
    IF response_text = <<>> THEN <<>>
    ELSE LET text == strip(upper(response_text))
             exact == ExactMatch(text, 1)
         IN  IF exact # <<>> THEN exact ELSE PartialMatch(text, 1)

(***************************************************************************)
(* personas.py: Persona.  survey.py: TaxScenario.  Rates are in percent.   *)
(***************************************************************************)
Persona_total_income(persona) == persona.wage_income + persona.other_income

\* Persona.description, by its parts.
Persona_description(persona) ==
    [name |-> persona.name,
     age |-> persona.age,
     emp_desc |-> <<IF persona.is_self_employed THEN "self-employed" ELSE "",
                    persona.occupation>>,
     status_desc |->
        IF persona.filing_status = "single" THEN "single"
        ELSE IF persona.filing_status = "married_filing_jointly" THEN "married"
        ELSE IF persona.filing_status = "head_of_household" THEN "single parent"
        ELSE "married, filing separately",
     dep_desc |->
        IF persona.num_dependents = 0 THEN <<"no dependents">>
        ELSE IF persona.num_dependents = 1 THEN <<"1 dependent">>
        ELSE <<persona.num_dependents, "dependents">>]

TaxScenario(persona_description, filing_status, wage_income, other_income, current_marginal_rate, new_marginal_rate) ==
    [persona_description |-> persona_description,
     filing_status |-> filing_status,
     wage_income |-> wage_income,
     other_income |-> other_income,
     current_marginal_rate |-> current_marginal_rate,
     new_marginal_rate |-> new_marginal_rate]

TaxScenario_total_income(scenario) == scenario.wage_income + scenario.other_income

TaxScenario_rate_change(scenario) ==
    scenario.new_marginal_rate - scenario.current_marginal_rate

TaxScenario_is_increase(scenario) == TaxScenario_rate_change(scenario) > 0

(***************************************************************************)
(* experiment.py                                                           *)
(***************************************************************************)
Min(a, b) == IF a <= b THEN a ELSE b

\* The body of the innermost loop of generate_scenarios.
ScenarioOfType(income, base_rate, rate_change, persona_type) ==
    LET new_rate == Max(0, Min(50, base_rate + rate_change))
        is_self_employed == persona_type = "self_employed"
        description ==
            [text |-> IF persona_type = "wage_worker"
                      THEN "a 35-year-old employee earning"
                      ELSE IF persona_type = "self_employed"
                      THEN "a 40-year-old self-employed consultant earning"
                      ELSE "a taxpayer earning",
             income |-> income]
    IN  TaxScenario(description, "single",
                    IF ~is_self_employed THEN income ELSE 0,
                    IF ~is_self_employed THEN 0 ELSE income,
                    base_rate, new_rate)

\* for persona_type in persona_types, from index k on.
RECURSIVE PersonaTypeLoop(_, _, _, _, _)
PersonaTypeLoop(income, base_rate, rate_change, persona_types, k) ==
    IF k > Len(persona_types) THEN <<>>
    ELSE <<ScenarioOfType(income, base_rate, rate_change, persona_types[k])>>
             \o PersonaTypeLoop(income, base_rate, rate_change, persona_types, k + 1)

\* for rate_change in rate_changes, from index j on.
RECURSIVE RateChangeLoop(_, _, _, _, _)
RateChangeLoop(income, base_rate, rate_changes, persona_types, j) ==
    IF j > Len(rate_changes) THEN <<>>
    ELSE PersonaTypeLoop(income, base_rate, rate_changes[j], persona_types, 1)
             \o RateChangeLoop(income, base_rate, rate_changes, persona_types, j + 1)

\* for income in income_levels, from index i on; get_marginal_rate_2024 may
\* raise, and then nothing is returned.
RECURSIVE IncomeLoop(_, _, _, _, _)
IncomeLoop(tbl, income_levels, rate_changes, persona_types, i) ==
    IF i > Len(income_levels) THEN Value(<<>>)
    ELSE LET base_rate == get_marginal_rate_2024(tbl, income_levels[i], "single")
         IN  IF base_rate.kind = "raise" THEN base_rate
             ELSE LET rest == IncomeLoop(tbl, income_levels, rate_changes,
                                         persona_types, i + 1)
                  IN  IF rest.kind = "raise" THEN rest
                      ELSE Value(RateChangeLoop(income_levels[i], base_rate.val[1],
                                                rate_changes, persona_types, 1)
                                     \o rest.val[1])

generate_scenarios(tbl, income_levels, rate_changes, persona_types) ==
    IncomeLoop(tbl, income_levels, rate_changes, persona_types, 1)

create_scenario_from_persona(tbl, persona, rate_change) ==
    LET base_rate == get_marginal_rate_2024(tbl, Persona_total_income(persona),
                                            persona.filing_status)
    IN  IF base_rate.kind = "raise" THEN base_rate
        ELSE Value(TaxScenario(Persona_description(persona), persona.filing_status,
                               persona.wage_income, persona.other_income,
                               base_rate.val[1],
                               Max(0, Min(50, base_rate.val[1] + rate_change))))

\* Mutant: all_scenarios[n_scenarios:], the first n_scenarios are skipped.
SelectScenariosAfter(all_scenarios, n_scenarios) ==
    IF n_scenarios = <<>> THEN all_scenarios
    ELSE SubSeq(all_scenarios, Min(n_scenarios[1], Len(all_scenarios)) + 1,
                Len(all_scenarios))

\* all_scenarios[:n_scenarios] for n_scenarios >= 0; None is <<>>.
SelectScenarios(all_scenarios, n_scenarios) ==
    IF n_scenarios = <<>> THEN all_scenarios
    ELSE SubSeq(all_scenarios, 1, Min(n_scenarios[1], Len(all_scenarios)))

\* What client.run_survey hands back: a dict with or without the key
\* "response", or another object with its str(); or it raises.
DictAnswer(text) == [kind |-> "dict", response |-> <<text>>]
DictWithoutResponse == [kind |-> "dict", response |-> <<>>]
OtherAnswer(text) == [kind |-> "other", response |-> <<text>>]
ClientRaises == [kind |-> "raise", response |-> <<>>]

\* response.get("response", "") or str(response)
response_text(answer) == IF answer.response = <<>> THEN <<>> ELSE answer.response[1]

\* The dict appended to results in one pass of the inner loop; the
\* timestamp and the explanation are left out.
\* Mutant: implied_eti is 0 when the response is not parsed.
ResultRowEtiOrZero(scenario, rep, answer) ==
    LET parsed == parse_response(response_text(answer))
        implied_eti ==
            IF parsed # <<>>
            THEN response_to_eti(parsed[1], RateOf(scenario.current_marginal_rate, 0),
                                 RateOf(scenario.new_marginal_rate, 0))
            ELSE Value(Frac(<<0>>, <<1>>))
    IN  [persona_description |-> scenario.persona_description,
         filing_status |-> scenario.filing_status,
         wage_income |-> scenario.wage_income,
         other_income |-> scenario.other_income,
         total_income |-> TaxScenario_total_income(scenario),
         current_rate |-> scenario.current_marginal_rate,
         new_rate |-> scenario.new_marginal_rate,
         rate_change |-> TaxScenario_rate_change(scenario),
         is_increase |-> TaxScenario_is_increase(scenario),
         repetition |-> rep + 1,
         raw_response |-> response_text(answer),
         parsed_response |-> parsed,
         implied_eti |-> implied_eti]

ResultRow(scenario, rep, answer) ==
    LET parsed == parse_response(response_text(answer))
        implied_eti ==
            IF parsed # <<>>
            THEN response_to_eti(parsed[1], RateOf(scenario.current_marginal_rate, 0),
                                 RateOf(scenario.new_marginal_rate, 0))
            ELSE ReturnNone
    IN  [persona_description |-> scenario.persona_description,
         filing_status |-> scenario.filing_status,
         wage_income |-> scenario.wage_income,
         other_income |-> scenario.other_income,
         total_income |-> TaxScenario_total_income(scenario),
         current_rate |-> scenario.current_marginal_rate,
         new_rate |-> scenario.new_marginal_rate,
         rate_change |-> TaxScenario_rate_change(scenario),
         is_increase |-> TaxScenario_is_increase(scenario),
         repetition |-> rep + 1,
         raw_response |-> response_text(answer),
         parsed_response |-> parsed,
         implied_eti |-> implied_eti]

(***************************************************************************)
(* The incomes the functions are called with: every bracket boundary of    *)
(* every filing status with its neighbours, the smallest incomes on both   *)
(* sides of zero, and the incomes of the test-suite.                       *)
(***************************************************************************)
Margin == 1
SmallIncome == 2

Ceilings ==
    {BRACKETS_2024[st][i][1] : st \in FilingStatus, i \in 1..6}

TestIncomes ==
    {10000, 30000, 75000, 150000, 220000, 400000, 700000, 60000, 300000}

Incomes ==
    UNION {(c - Margin)..(c + Margin) : c \in Ceilings}
        \cup ((-SmallIncome)..SmallIncome) \cup TestIncomes

Init ==
    /\ brackets = BRACKETS_2024
    /\ call = [op |-> "none", income |-> 0, status |-> "single", out |-> NotCalled]
    /\ eti = NotCalled
    /\ lab = NotCalled
    /\ exp = NotCalled

GetMarginalRate(income, st) ==
    /\ call' = [op |-> "get_marginal_rate_2024", income |-> income, status |-> st,
                out |-> get_marginal_rate_2024(brackets, income, st)]
    /\ UNCHANGED <<brackets, eti, lab, exp>>

\* Mutant: the open top bracket is closed in the table itself.
GetBracketInfoInPlace(income, st) ==
    /\ call' = [op |-> "get_bracket_info", income |-> income, status |-> st,
                out |-> get_bracket_info(brackets, income, st)]
    /\ brackets' = [brackets EXCEPT ![st][Len(brackets[st])][1] =
                                        brackets[st][Len(brackets[st]) - 1][1]]
    /\ UNCHANGED <<eti, lab, exp>>

GetBracketInfo(income, st) ==
    /\ call' = [op |-> "get_bracket_info", income |-> income, status |-> st,
                out |-> get_bracket_info(brackets, income, st)]
    /\ UNCHANGED <<brackets, eti, lab, exp>>

CalculateTaxLiability(income, st) ==
    /\ call' = [op |-> "calculate_tax_liability", income |-> income, status |-> st,
                out |-> calculate_tax_liability(brackets, income, st)]
    /\ UNCHANGED <<brackets, eti, lab, exp>>

CalculateEffectiveRate(income, st) ==
    /\ call' = [op |-> "calculate_effective_rate", income |-> income, status |-> st,
                out |-> calculate_effective_rate(brackets, income, st)]
    /\ UNCHANGED <<brackets, eti, lab, exp>>

NextTax ==
    \E income \in Incomes, st \in FilingStatus :
        \/ GetMarginalRate(income, st)
        \/ GetBracketInfo(income, st)
        \/ CalculateTaxLiability(income, st)
        \/ CalculateEffectiveRate(income, st)

SpecTax == Init /\ [][NextTax]_vars

(***************************************************************************)
(* The ETI functions are called once each with arguments drawn from: rates *)
(* of RatePercents percent, each shifted by up to EpsSteps times 1e-12,    *)
(* and the incomes below.                                                  *)
(***************************************************************************)
EpsSteps == 1

RatePercents == {0, 17, 22, 25, 27, 30, 99, 100, 110}

Rates == {RateOf(p, e) : p \in RatePercents, e \in (-EpsSteps)..EpsSteps}

InitialIncomes == {<<FInt(0)>>, <<FInt(75000)>>}

NewIncomes == {<<>>, <<FInt(72000)>>, <<FInt(75000)>>, <<FInt(78000)>>}

EtiCalls ==
    [op : {"EDSLClient.calculate_eti", "GPTClient.calculate_eti"},
     initial_rate : Rates, new_rate : Rates,
     initial_income : InitialIncomes, new_income : NewIncomes,
     response : {"-"}, out : {NotCalled}]
    \cup
    [op : {"response_to_eti"},
     initial_rate : Rates, new_rate : Rates,
     initial_income : {<<>>}, new_income : {<<>>},
     response : IncomeResponse, out : {NotCalled}]

InitEti ==
    /\ brackets = BRACKETS_2024
    /\ call = [op |-> "none", income |-> 0, status |-> "single", out |-> NotCalled]
    /\ eti \in EtiCalls
    /\ lab = NotCalled
    /\ exp = NotCalled

EDSLCalculateEti ==
    /\ eti.op = "EDSLClient.calculate_eti" /\ eti.out = NotCalled
    /\ eti' = [eti EXCEPT !.out =
                  EDSLClient_calculate_eti(eti.initial_rate, eti.new_rate,
                                           eti.initial_income, eti.new_income)]
    /\ UNCHANGED <<brackets, call, lab, exp>>

GPTCalculateEti ==
    /\ eti.op = "GPTClient.calculate_eti" /\ eti.out = NotCalled
    /\ eti' = [eti EXCEPT !.out =
                  GPTClient_calculate_eti(eti.initial_rate, eti.new_rate,
                                          eti.initial_income, eti.new_income)]
    /\ UNCHANGED <<brackets, call, lab, exp>>

ResponseToEti ==
    /\ eti.op = "response_to_eti" /\ eti.out = NotCalled
    /\ eti' = [eti EXCEPT !.out =
                  response_to_eti(eti.response, eti.initial_rate, eti.new_rate)]
    /\ UNCHANGED <<brackets, call, lab, exp>>

NextEti == EDSLCalculateEti \/ GPTCalculateEti \/ ResponseToEti

SpecEti == InitEti /\ [][NextEti]_vars

(***************************************************************************)
(* The prompt builders are called once each with the parameters of the     *)
(* experiment: rounds 1..16, endowments 14..30, wage 20, the rates of the  *)
(* replication scripts, and a threshold of 400 or some other value.        *)
(***************************************************************************)
Rounds == 16
LaborEndowmentMin == 14
LaborEndowmentMax == 30
WagePerUnit == 20
ProgressiveThreshold == 400
OtherThresholds == 2

ScriptRates == {25, 40, 50}
MaxLabor == {14, 16, 20, 22, 24, 26, 28, 30}

LabCalls ==
    [builder : {"generate_tax_scenario"},
     rate1 : ScriptRates, rate2 : ScriptRates,
     bkt1 : {ProgressiveThreshold} \cup 1..OtherThresholds,
     tax_schedule : {"-"},
     labor : MaxLabor, wage : {WagePerUnit}, round : 1..Rounds,
     out : {NotCalled}]
    \cup
    [builder : {"create_pknf_lab_prompt", "create_lab_experiment_survey"},
     rate1 : {0}, rate2 : {0}, bkt1 : {0},
     tax_schedule : TaxScheduleValues,
     labor : LaborEndowmentMin..LaborEndowmentMax, wage : {WagePerUnit},
     round : 1..Rounds,
     out : {NotCalled}]

InitLab ==
    /\ brackets = BRACKETS_2024
    /\ call = [op |-> "none", income |-> 0, status |-> "single", out |-> NotCalled]
    /\ eti = NotCalled
    /\ lab \in LabCalls
    /\ exp = NotCalled

GenerateTaxScenario ==
    /\ lab.builder = "generate_tax_scenario" /\ lab.out = NotCalled
    /\ lab' = [lab EXCEPT !.out =
                  generate_tax_scenario(lab.rate1, lab.rate2, lab.labor, lab.bkt1,
                                        lab.wage, lab.round)]
    /\ UNCHANGED <<brackets, call, eti, exp>>

CreatePknfLabPrompt ==
    /\ lab.builder = "create_pknf_lab_prompt" /\ lab.out = NotCalled
    /\ lab' = [lab EXCEPT !.out =
                  create_pknf_lab_prompt(lab.round, lab.labor, lab.tax_schedule,
                                         lab.wage)]
    /\ UNCHANGED <<brackets, call, eti, exp>>

CreateLabExperimentSurvey ==
    /\ lab.builder = "create_lab_experiment_survey" /\ lab.out = NotCalled
    /\ lab' = [lab EXCEPT !.out =
                  create_lab_experiment_survey(lab.round, lab.tax_schedule, lab.labor,
                                               lab.wage)]
    /\ UNCHANGED <<brackets, call, eti, exp>>

NextLab == GenerateTaxScenario \/ CreatePknfLabPrompt \/ CreateLabExperimentSurvey

SpecLab == InitLab /\ [][NextLab]_vars

(***************************************************************************)
(* The functions of experiment.py are called once each.  generate_scenarios*)
(* gets every list of at most MaxListLen income levels, rate changes (in   *)
(* percentage points) and persona types; run_survey_experiment gets one of *)
(* a few configurations and a client that answers from a script, the       *)
(* script being repeated when it runs out.                                 *)
(***************************************************************************)
MaxListLen == 2
MaxSelected == 4
MaxRepetitions == 2

ScenarioIncomes == {-1, 10000, 700000}
RateChanges == {-15, -5, 5, 15}
PersonaTypes == {"wage_worker", "self_employed", "retiree"}

\* The sequences over S of length at most n.
SeqsUpTo(S, n) == UNION {[1..m -> S] : m \in 0..n}

PERSONA_TEMPLATES ==
    {[name |-> "Alex Chen", occupation |-> "Software Engineer",
      filing_status |-> "single", num_dependents |-> 0,
      is_self_employed |-> FALSE, age |-> 32],
     [name |-> "Sarah Johnson", occupation |-> "High School Teacher",
      filing_status |-> "married_filing_jointly", num_dependents |-> 2,
      is_self_employed |-> FALSE, age |-> 38],
     [name |-> "Marcus Williams", occupation |-> "Freelance Consultant",
      filing_status |-> "single", num_dependents |-> 0,
      is_self_employed |-> TRUE, age |-> 45]}

Personas ==
    {[name |-> t.name, occupation |-> t.occupation,
      filing_status |-> t.filing_status, wage_income |-> w, other_income |-> o,
      num_dependents |-> t.num_dependents, is_self_employed |-> t.is_self_employed,
      age |-> t.age] :
        t \in PERSONA_TEMPLATES, w \in {-1, 0, 10000, 700000}, o \in {0, 5000}}

NoPersona == [name |-> "-"]

\* ExperimentConfig() and three other configurations.
ExperimentConfig ==
    [income_levels |-> <<40000, 95000, 180000, 400000>>,
     rate_changes |-> <<5, -5>>,
     persona_types |-> <<"wage_worker", "self_employed">>]

Configs ==
    {ExperimentConfig,
     [income_levels |-> <<40000>>, rate_changes |-> <<5, 0>>,
      persona_types |-> <<"wage_worker">>],
     [income_levels |-> <<700000, 10000>>, rate_changes |-> <<15, -15>>,
      persona_types |-> <<"self_employed">>],
     [income_levels |-> <<40000, -1>>, rate_changes |-> <<5>>,
      persona_types |-> <<"wage_worker">>]}

SomewhatLower == <<"s", "o", "m", "e", "w", "h", "a", "t", "_", "l", "o", "w", "e", "r">>
MuchHigherWords == <<"M", "u", "c", "h", " ", "H", "i", "g", "h", "e", "r">>
NoIdea == <<"n", "o", " ", "i", "d", "e", "a">>

Clients ==
    {<<DictAnswer(SomewhatLower)>>,
     <<DictAnswer(MuchHigherWords)>>,
     <<DictWithoutResponse>>,
     <<OtherAnswer(NoIdea)>>,
     <<DictAnswer(SomewhatLower), OtherAnswer(NoIdea), DictAnswer(MuchHigherWords)>>,
     <<DictAnswer(SomewhatLower), DictAnswer(SomewhatLower), ClientRaises>>,
     <<ClientRaises>>}

\* A call that has not started, with no arguments yet.
Pending ==
    [op |-> "-", income_levels |-> <<>>, rate_changes |-> <<>>,
     persona_types |-> <<>>, persona |-> NoPersona, rate_change |-> 0,
     n_scenarios |-> <<>>, n_repetitions |-> 0, client |-> <<>>,
     pc |-> "pending", scenarios |-> <<>>, s |-> 0, rep |-> 0,
     calls |-> <<>>, results |-> <<>>, out |-> NotCalled]

ExpCalls ==
    {[Pending EXCEPT !.op = "generate_scenarios", !.income_levels = il,
                     !.rate_changes = rc, !.persona_types = pt] :
        il \in SeqsUpTo(ScenarioIncomes, MaxListLen),
        rc \in SeqsUpTo(RateChanges, MaxListLen),
        pt \in SeqsUpTo(PersonaTypes, MaxListLen)}
    \cup
    {[Pending EXCEPT !.op = "create_scenario_from_persona", !.persona = persona,
                     !.rate_change = rate_change] :
        persona \in Personas, rate_change \in RateChanges}
    \cup
    {[Pending EXCEPT !.op = "run_survey_experiment",
                     !.income_levels = config.income_levels,
                     !.rate_changes = config.rate_changes,
                     !.persona_types = config.persona_types,
                     !.n_scenarios = n_scenarios,
                     !.n_repetitions = n_repetitions,
                     !.client = client] :
        config \in Configs,
        n_scenarios \in {<<>>} \cup {<<n>> : n \in 0..MaxSelected},
        n_repetitions \in 0..MaxRepetitions,
        client \in Clients}

InitExp ==
    /\ brackets = BRACKETS_2024
    /\ call = [op |-> "none", income |-> 0, status |-> "single", out |-> NotCalled]
    /\ eti = NotCalled
    /\ lab = NotCalled
    /\ exp \in ExpCalls

GenerateScenarios ==
    /\ exp.op = "generate_scenarios" /\ exp.pc = "pending"
    /\ exp' = [exp EXCEPT !.pc = "done",
                          !.out = generate_scenarios(brackets, exp.income_levels,
                                                     exp.rate_changes,
                                                     exp.persona_types)]
    /\ UNCHANGED <<brackets, call, eti, lab>>

CreateScenarioFromPersona ==
    /\ exp.op = "create_scenario_from_persona" /\ exp.pc = "pending"
    /\ exp' = [exp EXCEPT !.pc = "done",
                          !.out = create_scenario_from_persona(brackets, exp.persona,
                                                               exp.rate_change)]
    /\ UNCHANGED <<brackets, call, eti, lab>>

\* run_survey_experiment from its entry to the first client.run_survey, or
\* to its return when there is nothing to run.
RunSurveyExperiment ==
    /\ exp.op = "run_survey_experiment" /\ exp.pc = "pending"
    /\ LET all_scenarios == generate_scenarios(brackets, exp.income_levels,
                                               exp.rate_changes, exp.persona_types)
       IN  IF all_scenarios.kind = "raise"
           THEN exp' = [exp EXCEPT !.pc = "done", !.out = all_scenarios]
           ELSE LET scenarios == SelectScenarios(all_scenarios.val[1], exp.n_scenarios)
                IN  IF scenarios = <<>> \/ exp.n_repetitions = 0
                    THEN exp' = [exp EXCEPT !.pc = "done", !.scenarios = scenarios,
                                            !.out = Value(<<>>)]
                    ELSE exp' = [exp EXCEPT !.pc = "calling", !.scenarios = scenarios,
                                            !.s = 1, !.rep = 0]
    /\ UNCHANGED <<brackets, call, eti, lab>>

\* One pass of the inner loop: client.run_survey(prompt) answers or raises,
\* the row is appended, and the loops go on to the next call or the return.
ClientRunSurvey ==
    /\ exp.op = "run_survey_experiment" /\ exp.pc = "calling"
    /\ LET answer == exp.client[(Len(exp.calls) % Len(exp.client)) + 1]
           scenario == exp.scenarios[exp.s]
           calls == Append(exp.calls, [scenario |-> scenario,
                                       repetition |-> exp.rep + 1])
           results == Append(exp.results, ResultRow(scenario, exp.rep, answer))
       IN  IF answer.kind = "raise"
           THEN exp' = [exp EXCEPT !.pc = "done", !.calls = calls,
                                   !.out = Raise("Exception")]
           ELSE IF exp.rep + 1 < exp.n_repetitions
           THEN exp' = [exp EXCEPT !.calls = calls, !.results = results,
                                   !.rep = exp.rep + 1]
           ELSE IF exp.s < Len(exp.scenarios)
           THEN exp' = [exp EXCEPT !.calls = calls, !.results = results,
                                   !.s = exp.s + 1, !.rep = 0]
           ELSE exp' = [exp EXCEPT !.pc = "done", !.calls = calls,
                                   !.results = results, !.out = Value(results)]
    /\ UNCHANGED <<brackets, call, eti, lab>>

NextExp ==
    \/ GenerateScenarios
    \/ CreateScenarioFromPersona
    \/ RunSurveyExperiment
    \/ ClientRunSurvey

SpecExp == InitExp /\ [][NextExp]_vars

(***************************************************************************)
(* Properties of tax_brackets.py                                           *)
(***************************************************************************)
Ceiling(st, i) == IF i = 0 THEN 0 ELSE BRACKETS_2024[st][i][1]
Rate(st, i) == BRACKETS_2024[st][i][2]

\* The first bracket, in table order, whose upper bound is >= income.
FirstBracket(st, income) ==
    CHOOSE i \in 1..7 :
        /\ income <= Ceiling(st, i)
        /\ \A j \in 1..(i - 1) : Ceiling(st, j) < income

C1_AtCall ==
    (call.op = "get_marginal_rate_2024" /\ call.income >= 0) =>
        /\ call.out = Value(Rate(call.status, FirstBracket(call.status, call.income)))
        /\ \A i \in 1..6 :
            /\ call.income = Ceiling(call.status, i) =>
                   call.out = Value(Rate(call.status, i))
            /\ call.income = Ceiling(call.status, i) + 1 =>
                   call.out = Value(Rate(call.status, i + 1))
        /\ call.status = "single" =>
            /\ call.income = 11600 => call.out = Value(10)
            /\ call.income = 11601 => call.out = Value(12)
            /\ call.income = 75000 => call.out = Value(22)

C1_NonDecreasing ==
    (/\ call.op = "get_marginal_rate_2024" /\ call'.op = "get_marginal_rate_2024"
     /\ call.status = call'.status
     /\ 0 <= call.income /\ call.income <= call'.income) =>
        /\ call.out.kind = "value" /\ call'.out.kind = "value"
        /\ call.out.val[1] <= call'.out.val[1]

\* C1: for every filing status and income >= 0 get_marginal_rate_2024 returns
\* the rate of the first bracket whose upper bound is >= income (an income at
\* an upper bound gets that bracket's rate, upper bound + 1 the next one), and
\* of two calls with the same status the one with the larger income never
\* returns the smaller rate.
C1_MarginalRateFirstBracket == []C1_AtCall /\ [][C1_NonDecreasing]_vars

C1_Witness ==
    /\ call.op = "get_marginal_rate_2024"
    /\ call.status = "head_of_household"
    /\ call.income = 63101
    /\ call.out = Value(22)

\* What bracket i contributes to the liability on income, in cents.
Charge(st, income, i) ==
    IF Ceiling(st, i) < income
    THEN (Ceiling(st, i) - Ceiling(st, i - 1)) * Rate(st, i)
    ELSE IF Ceiling(st, i - 1) < income
    THEN (income - Ceiling(st, i - 1)) * Rate(st, i)
    ELSE 0

ReferenceLiability(st, income) ==
    SumTo([i \in 1..7 |-> Charge(st, income, i)], 7)

\* C2: for every filing status and income >= 0 calculate_tax_liability is the
\* sum of the full charge of every bracket wholly below the income and the
\* partial charge of the bracket containing it; it is 0 for income 0.
C2_LiabilityIsBracketSum ==
    (call.op = "calculate_tax_liability" /\ call.income >= 0) =>
        /\ call.out = Value(ReferenceLiability(call.status, call.income))
        /\ call.income = 0 => call.out = Value(0)

C2_Witness ==
    /\ call.op = "calculate_tax_liability"
    /\ call.status = "single"
    /\ call.income = 47151
    /\ call.out = Value(11600 * 10 + 35550 * 12 + 1 * 22)

\* C10: calculate_effective_rate returns liability / income for income > 0,
\* 0 for income 0, and raises ValueError for a negative income.
C10_EffectiveRateRejectsNegative ==
    call.op = "calculate_effective_rate" =>
        /\ call.income > 0 =>
               call.out = Value(Quot(ReferenceLiability(call.status, call.income),
                                     call.income * 100))
        /\ call.income = 0 => call.out = Value(Quot(0, 1))
        /\ call.income < 0 => call.out = Raise("ValueError")

(***************************************************************************)
(* Properties of the ETI functions                                         *)
(***************************************************************************)
Returned(op) == eti.op = op /\ eti.out # NotCalled

One == FInt(1)

\* C3: for initial_income # 0, initial_rate # 1 and new_rate # initial_rate
\* EDSLClient.calculate_eti returns the value e with
\* e * (initial_rate - new_rate) * initial_income =
\* (new_income - initial_income) * (1 - initial_rate), i.e. the percent change
\* of income over the percent change of the net-of-tax rate; it is 0.6 for
\* rates 0.25 -> 0.30 and incomes 75000 -> 72000.
C3_EtiIsRatioOfPercentChanges ==
    (/\ Returned("EDSLClient.calculate_eti")
     /\ eti.new_income # <<>>
     /\ ~FIsZero(eti.initial_income[1])
     /\ ~FEq(eti.initial_rate, One)
     /\ ~FEq(eti.new_rate, eti.initial_rate)) =>
        /\ eti.out.kind = "value"
        /\ FEq(FMul(FMul(eti.out.val[1], FSub(eti.initial_rate, eti.new_rate)),
                    eti.initial_income[1]),
               FMul(FSub(eti.new_income[1], eti.initial_income[1]),
                    FSub(One, eti.initial_rate)))
        /\ (/\ eti.initial_rate = RateOf(25, 0) /\ eti.new_rate = RateOf(30, 0)
            /\ eti.initial_income = <<FInt(75000)>>
            /\ eti.new_income = <<FInt(72000)>>) =>
               eti.out = Value(Frac(<<6>>, <<10>>))

C3_Witness ==
    /\ Returned("EDSLClient.calculate_eti")
    /\ eti.initial_rate = RateOf(25, 0) /\ eti.new_rate = RateOf(30, 0)
    /\ eti.initial_income = <<FInt(75000)>> /\ eti.new_income = <<FInt(72000)>>
    /\ eti.out = Value(Frac(<<3>>, <<5>>))

\* C4: EDSLClient.calculate_eti and GPTClient.calculate_eti return None (no
\* exception, no value) whenever initial_income = 0, initial_rate = 1 or
\* new_rate = initial_rate.
C4_UndefinedEtiIsNone ==
    (/\ Returned("EDSLClient.calculate_eti") \/ Returned("GPTClient.calculate_eti")
     /\ \/ eti.initial_income = <<FInt(0)>>
        \/ FEq(eti.initial_rate, One)
        \/ FEq(eti.new_rate, eti.initial_rate)) =>
        eti.out = ReturnNone

C4_Witness ==
    /\ Returned("EDSLClient.calculate_eti")
    /\ eti.initial_rate = RateOf(100, 0) /\ eti.new_rate = RateOf(30, 0)
    /\ eti.initial_income = <<FInt(75000)>> /\ eti.new_income = <<FInt(72000)>>
    /\ eti.out = ReturnNone

\* |new_rate - current_rate| < 1e-10 * |1 - current_rate|
WithinTolerance(current_rate, new_rate) ==
    FLess(FAbs(FSub(new_rate, current_rate)),
          FMul(Tolerance, FAbs(FSub(One, current_rate))))

\* C5 as claimed: response_to_eti returns None exactly when new_rate =
\* current_rate or current_rate = 1, and a number for every other rate pair.
C5_NoneOnlyWithoutRateChange ==
    Returned("response_to_eti") =>
        IF FEq(eti.new_rate, eti.initial_rate) \/ FEq(eti.initial_rate, One)
        THEN eti.out = ReturnNone
        ELSE eti.out.kind = "value"

\* C5 amended: response_to_eti returns None exactly when current_rate = 1 or
\* the rate change is within the tolerance, |new_rate - current_rate| <
\* 1e-10 * |1 - current_rate| (new_rate = current_rate included), and a
\* number for every other rate pair.
C5_NoneWithinTolerance ==
    Returned("response_to_eti") =>
        IF FEq(eti.initial_rate, One) \/ WithinTolerance(eti.initial_rate, eti.new_rate)
        THEN eti.out = ReturnNone
        ELSE eti.out.kind = "value"

C5_Witness ==
    /\ Returned("response_to_eti")
    /\ eti.initial_rate = RateOf(22, 0) /\ eti.new_rate = RateOf(22, 1)
    /\ eti.response = "much_lower"
    /\ eti.out = ReturnNone

\* C6 as claimed: response_to_eti(ABOUT_SAME, r1, r2) returns 0.0 whenever
\* r1 # r2.
C6_AboutSameIsZero ==
    (/\ Returned("response_to_eti") /\ eti.response = "about_same"
     /\ ~FEq(eti.initial_rate, eti.new_rate)) =>
        eti.out = Value(FInt(0))

\* C6 amended: response_to_eti(ABOUT_SAME, r1, r2) returns 0.0 whenever
\* r1 # 1 and the rate change is not within the tolerance.
C6_AboutSameIsZeroWhenDefined ==
    (/\ Returned("response_to_eti") /\ eti.response = "about_same"
     /\ ~FEq(eti.initial_rate, One)
     /\ ~WithinTolerance(eti.initial_rate, eti.new_rate)) =>
        eti.out = Value(FInt(0))

C6_Witness ==
    /\ Returned("response_to_eti") /\ eti.response = "about_same"
    /\ eti.initial_rate = RateOf(22, 0) /\ eti.new_rate = RateOf(27, 0)
    /\ eti.out = Value(FInt(0))

(***************************************************************************)
(* Properties of the lab schedule the prompts present                      *)
(***************************************************************************)
Built == lab.out.kind = "value"
Prompt == lab.out.val[1]

\* The prompt presents a schedule of two different rates.
TwoBracket == Built /\ Prompt.low # Prompt.high

\* The prompt presents the schedule threshold 400, 25%, 50%.
Lab400 == TwoBracket /\ Prompt.threshold = 400 /\ Prompt.low = 25 /\ Prompt.high = 50

\* notch_tax times 100: the whole income at the rate of its side of T.
NotchTax100(income, T, l, h) == IF income <= T THEN income * l ELSE income * h

\* The tax of the usual marginal schedule times 100: h on the excess only.
ExcessTax100(income, T, l, h) ==
    IF income <= T THEN income * l ELSE T * l + (income - T) * h

\* x is a figure times 100 shown without decimals as shown.
ShownAs(x, shown) == 100 * shown - 50 <= x /\ x <= 100 * shown + 50

\* C7: the tax presented for the two-bracket lab schedule is income * l up
\* to the threshold and income * h above it, the entire income at the high
\* rate.
C7_PresentedTaxIsNotch ==
    TwoBracket =>
        \A ex \in Prompt.examples :
            ShownAs(NotchTax100(ex.income, Prompt.threshold, Prompt.low, Prompt.high),
                    ex.tax)

C9_DominatedRegion ==
    Lab400 =>
        \A ex \in Prompt.examples :
            (400 < ex.income /\ ex.income < 600) => ex.income - ex.tax < 300

(***************************************************************************)
(* Further properties of tax_brackets.py                                   *)
(***************************************************************************)
\* C12: for every filing status and every income < 0, get_marginal_rate_2024,
\* get_bracket_info and calculate_tax_liability raise ValueError and return
\* no value.
C12_NegativeIncomeRaises ==
    (/\ call.op \in {"get_marginal_rate_2024", "get_bracket_info",
                     "calculate_tax_liability"}
     /\ call.income < 0) =>
        call.out = Raise("ValueError")

C12_Witness ==
    /\ call.op = "calculate_tax_liability"
    /\ call.status = "married_filing_jointly"
    /\ call.income = -1
    /\ call.out = Raise("ValueError")

\* C13: for every filing status calculate_tax_liability(0) is 0, and for
\* every income i >= 0 the liability on i + 1 exceeds the liability on i by
\* exactly the marginal rate at i + 1, which lies between 10% and 37%: the
\* liability never falls and never jumps at a bracket boundary.
C13_LiabilityContinuous ==
    (call.op = "calculate_tax_liability" /\ call.income >= 0) =>
        LET next == calculate_tax_liability(brackets, call.income + 1, call.status)
            rate == get_marginal_rate_2024(brackets, call.income + 1, call.status)
        IN  /\ call.out.kind = "value" /\ next.kind = "value" /\ rate.kind = "value"
            /\ call.income = 0 => call.out = Value(0)
            /\ next.val[1] - call.out.val[1] = rate.val[1]
            /\ 10 <= rate.val[1] /\ rate.val[1] <= 37

C13_Witness ==
    /\ call.op = "calculate_tax_liability"
    /\ call.status = "single"
    /\ call.income = 11600
    /\ call.out = Value(116000)
    /\ calculate_tax_liability(brackets, 11601, "single") = Value(116012)

\* a / b <= c / d for a, c >= 0 and b, d > 0, by comparing the continued
\* fractions (no product is formed).
RECURSIVE RatLeq(_, _, _, _)
RatLeq(a, b, c, d) ==
    IF a \div b # c \div d THEN a \div b < c \div d
    ELSE IF a % b = 0 THEN TRUE
    ELSE IF c % d = 0 THEN FALSE
    ELSE RatLeq(d, c % d, b, a % b)

WellFormedTable(tbl) ==
    \A st \in FilingStatus :
        LET bs == tbl[st]
        IN  /\ Len(bs) >= 1
            /\ bs[Len(bs)][1] = Inf
            /\ \A i \in 1..(Len(bs) - 1) :
                /\ bs[i][1] < bs[i + 1][1]
                /\ bs[i][2] < bs[i + 1][2]

\* C18: after any sequence of calls BRACKETS_2024 still holds, for each of the
\* four filing statuses, the ordered table it was loaded with: upper bounds
\* strictly increasing, the last one +infinity, rates strictly increasing
\* with the bracket index; no operation mutates the table.
C18_BracketsNeverMutated ==
    /\ DOMAIN brackets = FilingStatus
    /\ WellFormedTable(brackets)
    /\ brackets = BRACKETS_2024

C18_Witness ==
    /\ call.op = "get_bracket_info"
    /\ call.status = "single"
    /\ call.income = 700000
    /\ call.out = Value([marginal_rate |-> 37, bracket_floor |-> 609350,
                         bracket_ceiling |-> <<>>, next_rate |-> <<>>])
    /\ brackets = BRACKETS_2024

(***************************************************************************)
(* Further properties of the ETI functions                                 *)
(***************************************************************************)
Zero == FInt(0)
FNeg(a) == FSub(Zero, a)

\* Two outcomes are the same: both None, or the same number.
SameOutcome(a, b) ==
    /\ a.kind = b.kind
    /\ a.kind = "raise" => a.exc = b.exc
    /\ a.kind = "value" => FEq(a.val[1], b.val[1])

\* The direction income moved in: for calculate_eti the sign of new_income -
\* initial_income, for response_to_eti the direction the category names.
IncomeDirection ==
    IF eti.op = "response_to_eti"
    THEN CASE eti.response \in {"much_lower", "somewhat_lower"} -> -1
           [] eti.response = "about_same" -> 0
           [] eti.response \in {"somewhat_higher", "much_higher"} -> 1
    ELSE FSign(FSub(eti.new_income[1], eti.initial_income[1]))

\* The direction the net-of-tax share 1 - rate moved in.
NetOfTaxDirection == FSign(FSub(eti.initial_rate, eti.new_rate))

EtiDefined == eti.out.kind = "value"

ClaimedMidpoint(c) ==
    CASE c = "much_lower" -> Frac(<<-15>>, <<100>>)
      [] c = "somewhat_lower" -> Frac(<<-6>>, <<100>>)
      [] c = "about_same" -> Zero
      [] c = "somewhat_higher" -> Frac(<<6>>, <<100>>)
      [] c = "much_higher" -> Frac(<<15>>, <<100>>)

PositiveIncomes == {FInt(1), FInt(40000), FInt(75000)}

\* calculate_eti(r0, r1, y0, y0 * (1 + midpoint(c))) for the pending
\* response_to_eti(c, r0, r1).
ViaCalculateEti(y0) ==
    EDSLClient_calculate_eti(eti.initial_rate, eti.new_rate, <<y0>>,
                             <<FMul(y0, FSub(One, FNeg(ClaimedMidpoint(eti.response))))>>)

\* C16 as claimed: response_to_eti(c, r0, r1) gives the same outcome as
\* calculate_eti(r0, r1, y0, y0 * (1 + midpoint(c))) for every category, rate
\* pair and y0 > 0, the undefined outcome included.
C16_SameAsCalculateEti ==
    Returned("response_to_eti") =>
        \A y0 \in PositiveIncomes : SameOutcome(eti.out, ViaCalculateEti(y0))

\* C16 amended: the two give the same outcome for every category, every
\* y0 > 0 and every rate pair except those with r0 # r1 and
\* |r1 - r0| < 1e-10 * |1 - r0|; on these response_to_eti returns None and
\* calculate_eti returns a number.
C16_SameOutsideTolerance ==
    Returned("response_to_eti") =>
        \A y0 \in PositiveIncomes :
            IF /\ WithinTolerance(eti.initial_rate, eti.new_rate)
               /\ ~FEq(eti.initial_rate, eti.new_rate)
            THEN eti.out = ReturnNone /\ ViaCalculateEti(y0).kind = "value"
            ELSE SameOutcome(eti.out, ViaCalculateEti(y0))

C16_Witness ==
    /\ Returned("response_to_eti") /\ eti.response = "much_higher"
    /\ eti.initial_rate = RateOf(27, 0) /\ eti.new_rate = RateOf(22, 0)
    /\ EtiDefined
    /\ SameOutcome(eti.out, ViaCalculateEti(FInt(75000)))

\* calculate_eti with the initial and new labels of both pairs swapped.
Swapped ==
    EDSLClient_calculate_eti(eti.new_rate, eti.initial_rate,
                             eti.new_income, eti.initial_income)

\* The call's ETI recomputed from the negated percent changes.
FromNegatedChanges ==
    PyDiv(FNeg(FQuot(FSub(eti.new_income[1], eti.initial_income[1]),
                     eti.initial_income[1])),
          FNeg(FQuot(FSub(FSub(One, eti.new_rate), FSub(One, eti.initial_rate)),
                     FSub(One, eti.initial_rate))))

Generated == exp.op = "generate_scenarios" /\ exp.pc = "done"

NoNegativeIncome ==
    \A i \in 1..Len(exp.income_levels) : exp.income_levels[i] >= 0

\* The rate of the single filer's bracket that income lies in, in percent.
BaseRate(income) == Rate("single", FirstBracket("single", income))

ValidRate(rate) == 0 <= rate /\ rate <= 100

\* C11: a marginal rate outside [0,1] is never silently corrected: when base
\* rate + rate_change leaves the valid range in generate_scenarios (for a
\* scenario it is to build) or in create_scenario_from_persona, the call
\* raises instead of clamping the rate or computing with it.
C11_InvalidRateIsSignalled ==
    /\ (/\ Generated /\ NoNegativeIncome /\ exp.persona_types # <<>>
        /\ \E i \in 1..Len(exp.income_levels), j \in 1..Len(exp.rate_changes) :
              ~ValidRate(BaseRate(exp.income_levels[i]) + exp.rate_changes[j])) =>
           exp.out.kind = "raise"
    /\ (/\ exp.op = "create_scenario_from_persona" /\ exp.pc = "done"
        /\ Persona_total_income(exp.persona) >= 0
        /\ ~ValidRate(Rate(exp.persona.filing_status,
                            FirstBracket(exp.persona.filing_status,
                                         Persona_total_income(exp.persona)))
                          + exp.rate_change)) =>
           exp.out.kind = "raise"

\* The position of the scenario of the i-th income level, j-th rate change
\* and k-th persona type in the returned list.
TripleIndex(i, j, k) ==
    ((i - 1) * Len(exp.rate_changes) + (j - 1)) * Len(exp.persona_types) + k

\* C19: generate_scenarios returns exactly one TaxScenario for each (income
\* level, rate change, persona type) triple, ordered by income, then rate
\* change, then persona type; each scenario's current_marginal_rate is
\* get_marginal_rate_2024(income, SINGLE), its new_marginal_rate is
\* current_marginal_rate + rate_change, and its wage_income + other_income
\* is the income level.
C19_OneScenarioPerTriple ==
    (Generated /\ NoNegativeIncome) =>
        /\ exp.out.kind = "value"
        /\ Len(exp.out.val[1]) =
               Len(exp.income_levels) * Len(exp.rate_changes) * Len(exp.persona_types)
        /\ \A i \in 1..Len(exp.income_levels), j \in 1..Len(exp.rate_changes),
              k \in 1..Len(exp.persona_types) :
               LET scenario == exp.out.val[1][TripleIndex(i, j, k)]
               IN  /\ scenario.filing_status = "single"
                   /\ scenario.current_marginal_rate = BaseRate(exp.income_levels[i])
                   /\ scenario.new_marginal_rate =
                          scenario.current_marginal_rate + exp.rate_changes[j]
                   /\ scenario.wage_income + scenario.other_income =
                          exp.income_levels[i]
                   /\ (exp.persona_types[k] = "self_employed") <=>
                          (scenario.other_income = exp.income_levels[i])

Running == exp.op = "run_survey_experiment" /\ exp.pc # "pending"

\* The scenarios run_survey_experiment generates from its configuration.
AllScenarios ==
    generate_scenarios(BRACKETS_2024, exp.income_levels, exp.rate_changes,
                       exp.persona_types)

\* How many scenarios are selected: the first n_scenarios, or all of them.
NumSelected ==
    IF exp.n_scenarios = <<>> THEN Len(AllScenarios.val[1])
    ELSE Min(exp.n_scenarios[1], Len(AllScenarios.val[1]))

\* The k-th (scenario, repetition) pair, scenario by scenario with the
\* repetitions ascending.
PairScenario(k) == ((k - 1) \div exp.n_repetitions) + 1
PairRepetition(k) == ((k - 1) % exp.n_repetitions) + 1

\* C20: run_survey_experiment calls client.run_survey once for every
\* (selected scenario, repetition) pair, scenario by scenario with the
\* repetitions 1..n_repetitions ascending, the selected scenarios being the
\* first n_scenarios generated ones (all when n_scenarios is None); when it
\* returns it has made all these calls and returns one row per call in the
\* same order, every row with an implied_eti key.
C20_OneCallPerScenarioAndRepetition ==
    (Running /\ AllScenarios.kind = "value") =>
        /\ Len(exp.calls) <= NumSelected * exp.n_repetitions
        /\ \A k \in 1..Len(exp.calls) :
               /\ exp.calls[k].scenario = AllScenarios.val[1][PairScenario(k)]
               /\ exp.calls[k].repetition = PairRepetition(k)
        /\ exp.pc = "calling" => Len(exp.results) = Len(exp.calls)
        /\ exp.pc = "done" =>
               \/ exp.out = Raise("Exception")
               \/ /\ exp.out = Value(exp.results)
                  /\ Len(exp.calls) = NumSelected * exp.n_repetitions
                  /\ Len(exp.results) = NumSelected * exp.n_repetitions
        /\ \A k \in 1..Len(exp.results) :
               LET row == exp.results[k]
                   scenario == AllScenarios.val[1][PairScenario(k)]
               IN  /\ "implied_eti" \in DOMAIN row
                   /\ row.repetition = PairRepetition(k)
                   /\ row.persona_description = scenario.persona_description
                   /\ row.wage_income = scenario.wage_income
                   /\ row.other_income = scenario.other_income
                   /\ row.current_rate = scenario.current_marginal_rate
                   /\ row.new_rate = scenario.new_marginal_rate

C20_Witness ==
    /\ exp.op = "run_survey_experiment" /\ exp.pc = "done"
    /\ exp.income_levels = ExperimentConfig.income_levels
    /\ exp.n_scenarios = <<4>> /\ exp.n_repetitions = 2
    /\ exp.client = <<DictAnswer(SomewhatLower)>>
    /\ exp.out.kind = "value" /\ Len(exp.out.val[1]) = 8
    /\ Len(exp.calls) = 8

(***************************************************************************)
(* Calls of parse_response.  A text is a prefix, then a category name in   *)
(* some spelling or a filler, then a suffix; the suffixes include the      *)
(* option descriptions of the survey prompt.                               *)
(***************************************************************************)
\* The name of a category in the given case with sep between its two words.
NameAs(response, sep, case) ==
    LET name == ValueUpper(response)
        k == CHOOSE i \in 1..Len(name) : name[i] = "_"
        LowerChar(c) ==
            IF \E i \in 1..Len(UpperCase) : UpperCase[i] = c
            THEN LowerCase[CHOOSE i \in 1..Len(UpperCase) : UpperCase[i] = c]
            ELSE c
        lower(word) == [i \in 1..Len(word) |-> LowerChar(word[i])]
        Cased(word) ==
            CASE case = "upper" -> word
              [] case = "lower" -> lower(word)
              [] case = "title" -> <<word[1]>> \o lower(Tail(word))
    IN  Cased(SubSeq(name, 1, k - 1)) \o sep \o Cased(SubSeq(name, k + 1, Len(name)))

\* The parts of the texts: prefixes, fillers that are no name, suffixes.
TextParts ==
    [prefixes |->
        <<<<>>,
          <<"\n", " ", " ", "M", "y", " ", "r", "e", "s", "p", "o", "n", "s",
            "e", " ", "i", "s", ":", " ">>,
          <<"I", " ", "c", "h", "o", "o", "s", "e", " ">>>>,
     fillers |->
        <<<<>>,
          <<"i", "n", "v", "a", "l", "i", "d">>,
          <<"I", " ", "d", "o", "n", "'", "t", " ", "k", "n", "o", "w">>,
          <<"u", "n", "c", "h", "a", "n", "g", "e", "d">>,
          <<" ", " ">>>>,
     suffixes |->
        <<<<>>,
          <<".", "\n", "\n", "E", "x", "p", "l", "a", "n", "a", "t", "i", "o",
            "n", ":", " ", "f", "e", "w", "e", "r", " ", "o", "v", "e", "r", "t",
            "i", "m", "e", " ", "h", "o", "u", "r", "s">>,
          <<":", " ", "d", "e", "c", "r", "e", "a", "s", "e", " ", "b", "y", " ",
            "1", "0", "%", " ", "o", "r", " ", "m", "o", "r", "e">>,
          <<":", " ", "d", "e", "c", "r", "e", "a", "s", "e", " ", "b", "y", " ",
            "2", "-", "1", "0", "%">>,
          <<":", " ", "s", "t", "a", "y", " ", "a", "b", "o", "u", "t", " ", "t",
            "h", "e", " ", "s", "a", "m", "e", " ", "(", "w", "i", "t", "h", "i",
            "n", " ", "2", "%", ")">>,
          <<":", " ", "i", "n", "c", "r", "e", "a", "s", "e", " ", "b", "y", " ",
            "2", "-", "1", "0", "%">>,
          <<":", " ", "i", "n", "c", "r", "e", "a", "s", "e", " ", "b", "y", " ",
            "1", "0", "%", " ", "o", "r", " ", "m", "o", "r", "e">>,
          <<",", " ", "n", "o", "t", " ", "m", "u", "c", "h", "_", "h", "i", "g",
            "h", "e", "r">>>>]

ParseCalls ==
    {[op |-> "parse_response", prefix |-> p, response |-> response, sep |-> sep,
      case |-> case, filler |-> 0, suffix |-> s, out |-> NotCalled,
      text |-> TextParts.prefixes[p] \o NameAs(response, sep, case)
                   \o TextParts.suffixes[s]] :
        p \in 1..Len(TextParts.prefixes), response \in IncomeResponse,
        sep \in {<<"_">>, <<" ">>, <<" ", " ">>, <<"\n">>, <<>>, <<"-">>},
        case \in {"lower", "upper", "title"}, s \in 1..Len(TextParts.suffixes)}
    \cup
    {[op |-> "parse_response", prefix |-> p, response |-> "-", sep |-> <<>>,
      case |-> "-", filler |-> f, suffix |-> s, out |-> NotCalled,
      text |-> TextParts.prefixes[p] \o TextParts.fillers[f]
                   \o TextParts.suffixes[s]] :
        p \in 1..Len(TextParts.prefixes), f \in 1..Len(TextParts.fillers),
        s \in 1..Len(TextParts.suffixes)}

InitParse ==
    /\ brackets = BRACKETS_2024
    /\ call = [op |-> "none", income |-> 0, status |-> "single", out |-> NotCalled]
    /\ eti = NotCalled
    /\ lab = NotCalled
    /\ exp \in ParseCalls

ParseResponse ==
    /\ exp.op = "parse_response" /\ exp.out = NotCalled
    /\ exp' = [exp EXCEPT !.out = Value(parse_response(exp.text))]
    /\ UNCHANGED <<brackets, call, eti, lab>>

SpecParse == InitParse /\ [][ParseResponse]_vars

(***************************************************************************)
(* C21: what parse_response returns for a text that names a category.      *)
(***************************************************************************)
Parsed == exp.op = "parse_response" /\ exp.out # NotCalled
ParsedAs == exp.out.val[1]

SpaceSeparators == {<<" ">>, <<" ", " ">>, <<"\n">>}

\* The first member of IncomeResponse, in definition order, that is in S.
FirstOf(S) ==
    IF S = {} THEN <<>>
    ELSE <<IncomeResponseOrder[CHOOSE i \in 1..Len(IncomeResponseOrder) :
               /\ IncomeResponseOrder[i] \in S
               /\ \A j \in 1..(i - 1) : IncomeResponseOrder[j] \notin S]>>

\* The categories whose name the text has with an underscore.
UnderscoreNamed ==
    (IF exp.sep = <<"_">> THEN {exp.response} ELSE {})
        \cup (IF exp.suffix = 8 THEN {"much_higher"} ELSE {})

\* The categories whose fallback patterns the text matches: the name with
\* whitespace or nothing between its words, or one of the descriptions.
FallbackNamed ==
    (IF exp.response # "-" /\ exp.sep \in SpaceSeparators \cup {<<>>}
     THEN {exp.response} ELSE {})
    \cup (CASE exp.suffix = 3 -> {"much_lower"}
            [] exp.suffix = 4 -> {"much_lower", "somewhat_lower"}
            [] exp.suffix = 5 -> {"about_same"}
            [] exp.suffix = 6 -> {"somewhat_higher", "much_higher"}
            [] exp.suffix = 7 -> {"much_higher"}
            [] OTHER -> {})
    \cup (IF exp.filler = 4 THEN {"about_same"} ELSE {})

DescribedOption(s) ==
    CASE s = 3 -> "much_lower"
      [] s = 4 -> "somewhat_lower"
      [] s = 5 -> "about_same"
      [] s = 6 -> "somewhat_higher"
      [] s = 7 -> "much_higher"

\* C30: for a text without a category name that repeats one option
\* description of the prompt, parse_response returns that option's category:
\* 'decrease by 2-10%' gives SOMEWHAT_LOWER, 'increase by 2-10%'
\* SOMEWHAT_HIGHER, 'decrease by 10% or more' MUCH_LOWER and 'increase by
\* 10% or more' MUCH_HIGHER.
C30_DescriptionGivesItsCategory ==
    (Parsed /\ exp.filler = 1 /\ exp.suffix \in {3, 4, 6, 7}) =>
        ParsedAs = <<DescribedOption(exp.suffix)>>

(***************************************************************************)
(* edsl_client.py: EDSLClient.run_survey.  The client is constructed with  *)
(* a model name and use_cache and then runs surveys; runs is the list of   *)
(* the calls of Jobs.run it has made, each with its job and its cache      *)
(* argument.                                                               *)
(***************************************************************************)
MaxRuns == 3

\* str.startswith
StartsWith(text, prefix) ==
    Len(text) >= Len(prefix) /\ SubSeq(text, 1, Len(prefix)) = prefix

\* Model(self.model, service_name="google") or Model(self.model)
Model(model) ==
    IF StartsWith(model, <<"g", "e", "m", "i", "n", "i", "-">>)
    THEN [model |-> model, service_name |-> <<"google">>]
    ELSE [model |-> model, service_name |-> <<>>]

\* EDSLClient(api_key="test_key", model=model, use_cache=use_cache)
EDSLClient(model, use_cache) ==
    [op |-> "EDSLClient", model |-> model, use_cache |-> use_cache,
     runs |-> <<>>, results |-> <<>>]

\* What run_survey(survey, agent) makes of the client: one job is built and
\* run, and the result of that run is returned.
run_survey(self, survey, agent) ==
    LET model == Model(self.model)
        job == IF agent # <<>>
               THEN [survey |-> survey, agents |-> agent, models |-> <<model>>]
               ELSE [survey |-> survey, agents |-> <<>>, models |-> <<model>>]
        run == [job |-> job, cache |-> self.use_cache]
    IN  [self EXCEPT !.runs = Append(@, run),
                     !.results = Append(@, Len(self.runs) + 1)]

\* create_tax_survey(broad_income, taxable_income, mtr_last, mtr_this), by
\* its arguments (rates in percent).
Surveys ==
    {[broad_income |-> 100000, taxable_income |-> 75000, mtr_last |-> 25, mtr_this |-> 30],
     [broad_income |-> 100000, taxable_income |-> 75000, mtr_last |-> 25, mtr_this |-> 20],
     [broad_income |-> 50000, taxable_income |-> 40000, mtr_last |-> 15, mtr_this |-> 30]}

InitClient ==
    /\ brackets = BRACKETS_2024
    /\ call = [op |-> "none", income |-> 0, status |-> "single", out |-> NotCalled]
    /\ eti = NotCalled
    /\ lab = NotCalled
    /\ exp \in {EDSLClient(model, use_cache) :
                    model \in {<<"g", "p", "t", "-", "4", "o", "-", "m", "i", "n", "i">>,
                               <<"g", "e", "m", "i", "n", "i", "-", "p", "r", "o">>},
                    use_cache \in BOOLEAN}

RunSurvey ==
    /\ exp.op = "EDSLClient" /\ Len(exp.runs) < MaxRuns
    /\ \E survey \in Surveys, agent \in {<<>>, <<"Respondent_1">>} :
           exp' = run_survey(exp, survey, agent)
    /\ UNCHANGED <<brackets, call, eti, lab>>

SpecClient == InitClient /\ [][RunSurvey]_vars

(***************************************************************************)
(* C22: the cache of the client.                                           *)
(***************************************************************************)
\* C22: with use_cache=True, running the same survey twice through
\* run_survey executes Jobs.run only once: no job is run a second time.
C22_SameSurveyRunsOnce ==
    (exp.op = "EDSLClient" /\ exp.use_cache) =>
        \A i, j \in 1..Len(exp.runs) : exp.runs[i].job = exp.runs[j].job => i = j

(***************************************************************************)
(* book/scripts/check_missing_images.py.  A path is a number of steps up   *)
(* from the book directory and the components below that place; a          *)
(* component is a text.  A markdown file is its path and the list          *)
(* find_image_references returns for it, each reference split at "/".      *)
(***************************************************************************)
MaxFiles == 2
MaxRefs == 2

Exit(status) == [kind |-> "exit", val |-> <<status>>, exc |-> "-"]

\* Path.parent
PathParent(path) ==
    IF path.parts = <<>> THEN [path EXCEPT !.up = @ + 1]
    ELSE [path EXCEPT !.parts = SubSeq(@, 1, Len(@) - 1)]

\* while path_parts and path_parts[0] == "..", then base_path / the rest
RECURSIVE ProcessParentReferences(_, _)
ProcessParentReferences(base_path, path_parts) ==
    IF path_parts # <<>> /\ Head(path_parts) = <<".", ".">>
    THEN ProcessParentReferences(PathParent(base_path), Tail(path_parts))
    ELSE [base_path EXCEPT !.parts = @ \o path_parts]

resolve_image_path(image_ref, markdown_file) ==
    IF Len(image_ref) > 1 /\ Head(image_ref) = <<".", ".">>
    THEN ProcessParentReferences(PathParent(markdown_file), image_ref)
    ELSE [PathParent(markdown_file) EXCEPT !.parts = @ \o image_ref]

\* The loop over the references of one file, from reference i on: the list
\* of missing images, or the ValueError of relative_to(book_dir) for a
\* missing image above the book directory.
RECURSIVE ImageLoop(_, _, _, _)
ImageLoop(md_file, exists, i, missing_images) ==
    IF i > Len(md_file.images) THEN Value(missing_images)
    ELSE LET img_ref == md_file.images[i]
             img_path == resolve_image_path(img_ref, md_file.path)
         IN  IF img_path \in exists
             THEN ImageLoop(md_file, exists, i + 1, missing_images)
             ELSE IF img_path.up > 0 THEN Raise("ValueError")
             ELSE ImageLoop(md_file, exists, i + 1,
                            Append(missing_images,
                                   [markdown |-> md_file.path, reference |-> img_ref,
                                    expected_path |-> img_path]))

RECURSIVE FileLoop(_, _, _, _)
FileLoop(markdown_files, exists, i, missing_images) ==
    IF i > Len(markdown_files) THEN Value(missing_images)
    ELSE LET missing == ImageLoop(markdown_files[i], exists, 1, missing_images)
         IN  IF missing.kind = "raise" THEN missing
             ELSE FileLoop(markdown_files, exists, i + 1, missing.val[1])

\* main(): files are the *.md files below the book directory in the order
\* of glob, exists the paths that exist.
main(files, exists) ==
    LET \* "_build" not in str(f.relative_to(book_dir))
        Scanned(f) ==
            ~ \E i \in 1..Len(f.path.parts) :
                  Contains(f.path.parts[i], <<"_", "b", "u", "i", "l", "d">>)
        markdown_files == SelectSeq(files, Scanned)
        missing_images == FileLoop(markdown_files, exists, 1, <<>>)
    IN  IF missing_images.kind = "raise" THEN missing_images
        ELSE IF missing_images.val[1] # <<>> THEN Exit(1)
        ELSE Exit(0)

(***************************************************************************)
(* One run of main on a book directory with at most MaxFiles markdown      *)
(* files of at most MaxRefs references each.                               *)
(***************************************************************************)
\* The parts of the book directories: the markdown files in one order of
\* glob, the references of a file, and the image files that may exist.
Books ==
    [MarkdownPaths |->
        <<<<<<"r", "e", "s", "u", "l", "t", "s">>, <<"t", "e", "s", "t", ".", "m", "d">>>>,
          <<<<"r", "e", "s", "u", "l", "t", "s">>, <<"s", "u", "b">>, <<"t", "e", "s", "t", ".", "m", "d">>>>,
          <<<<"_", "b", "u", "i", "l", "d">>, <<"t", "e", "s", "t", ".", "m", "d">>>>,
          <<<<"r", "e", "s", "u", "l", "t", "s">>, <<"h", "o", "w", "_", "t", "o", "_", "b", "u", "i", "l", "d", ".", "m", "d">>>>>>,
     ImageRefs |->
        {<<<<"a", ".", "p", "n", "g">>>>,
         <<<<".", ".">>, <<"f", "i", "g", "u", "r", "e", "s">>, <<"a", ".", "p", "n", "g">>>>,
         <<<<".", ".">>, <<".", ".">>, <<"a", ".", "p", "n", "g">>>>},
     ExistingPaths |->
        {[up |-> 0, parts |-> <<<<"f", "i", "g", "u", "r", "e", "s">>, <<"a", ".", "p", "n", "g">>>>],
         [up |-> 0, parts |-> <<<<"r", "e", "s", "u", "l", "t", "s">>, <<"a", ".", "p", "n", "g">>>>]}]

\* main is about to run on a book directory: some of the markdown files,
\* none twice, each with references that differ, and some image files.
InitBook ==
    /\ brackets = BRACKETS_2024
    /\ call = [op |-> "none", income |-> 0, status |-> "single", out |-> NotCalled]
    /\ eti = NotCalled
    /\ lab = NotCalled
    /\ \E s \in SeqsUpTo(1..Len(Books.MarkdownPaths), MaxFiles) :
           /\ \A i, j \in 1..Len(s) : i < j => s[i] < s[j]
           /\ \E images \in [1..Len(s) ->
                               {r \in SeqsUpTo(Books.ImageRefs, MaxRefs) :
                                    \A i, j \in 1..Len(r) : r[i] = r[j] => i = j}] :
              \E exists \in SUBSET Books.ExistingPaths :
                  exp = [op |-> "main",
                         files |-> [n \in 1..Len(s) |->
                                       [path |-> [up |-> 0,
                                                  parts |-> Books.MarkdownPaths[s[n]]],
                                        images |-> images[n]]],
                         exists |-> exists, out |-> NotCalled]

Main ==
    /\ exp.op = "main" /\ exp.out = NotCalled
    /\ exp' = [exp EXCEPT !.out = main(exp.files, exp.exists)]
    /\ UNCHANGED <<brackets, call, eti, lab>>

SpecBook == InitBook /\ [][Main]_vars

(***************************************************************************)
(* C23: the exit status of check_missing_images.main.                      *)
(***************************************************************************)
\* The files below the directory _build of the book.
UnderBuild(f) == f.path.parts[1] = <<"_", "b", "u", "i", "l", "d">>

\* Where the claim resolves a reference: above the directory of the file by
\* the number of its leading "..", or in the directory of the file.
RECURSIVE LeadingUps(_)
LeadingUps(ref) ==
    IF Len(ref) > 1 /\ Head(ref) = <<".", ".">> THEN 1 + LeadingUps(Tail(ref)) ELSE 0

RECURSIVE Above(_, _)
Above(path, n) == IF n = 0 THEN path ELSE Above(PathParent(path), n - 1)

ClaimedPath(f, ref) ==
    LET n == LeadingUps(ref)
        dir == Above(PathParent(f.path), n)
    IN  [dir EXCEPT !.parts = @ \o SubSeq(ref, n + 1, Len(ref))]

SomeImageMissing ==
    \E i \in 1..Len(exp.files) :
        /\ ~UnderBuild(exp.files[i])
        /\ \E k \in 1..Len(exp.files[i].images) :
               ClaimedPath(exp.files[i], exp.files[i].images[k]) \notin exp.exists

\* C23: main ends with exit status 1 (also that of an uncaught exception) if
\* an image referenced by a markdown file of the book that is not under
\* _build does not exist at its resolved path, and with 0 if every
\* referenced image exists.
C23_ExitStatusTellsMissingImage ==
    (exp.op = "main" /\ exp.out # NotCalled) =>
        IF SomeImageMissing THEN exp.out \in {Exit(1), Raise("ValueError")}
        ELSE exp.out = Exit(0)

(***************************************************************************)
(* personas.py: create_persona.  An exception carries its message.         *)
(***************************************************************************)
\* Mutant: other_income is not validated.
create_persona_wage_only(name, occupation, filing_status, wage_income, other_income, num_dependents, is_self_employed, age) ==
    IF wage_income < 0
    THEN [kind |-> "raise", val |-> <<"Income cannot be negative">>, exc |-> "ValueError"]
    ELSE IF num_dependents < 0
    THEN [kind |-> "raise", val |-> <<"Dependents cannot be negative">>, exc |-> "ValueError"]
    ELSE IF age < 0 \/ age > 120
    THEN [kind |-> "raise", val |-> <<"Age must be between 0 and 120">>, exc |-> "ValueError"]
    ELSE Value([name |-> name, occupation |-> occupation,
                filing_status |-> filing_status, wage_income |-> wage_income,
                other_income |-> other_income, num_dependents |-> num_dependents,
                is_self_employed |-> is_self_employed, age |-> age])

create_persona(name, occupation, filing_status, wage_income, other_income, num_dependents, is_self_employed, age) ==
    IF wage_income < 0
    THEN [kind |-> "raise", val |-> <<"Income cannot be negative">>, exc |-> "ValueError"]
    ELSE IF other_income < 0
    THEN [kind |-> "raise", val |-> <<"Income cannot be negative">>, exc |-> "ValueError"]
    ELSE IF num_dependents < 0
    THEN [kind |-> "raise", val |-> <<"Dependents cannot be negative">>, exc |-> "ValueError"]
    ELSE IF age < 0 \/ age > 120
    THEN [kind |-> "raise", val |-> <<"Age must be between 0 and 120">>, exc |-> "ValueError"]
    ELSE Value([name |-> name, occupation |-> occupation,
                filing_status |-> filing_status, wage_income |-> wage_income,
                other_income |-> other_income, num_dependents |-> num_dependents,
                is_self_employed |-> is_self_employed, age |-> age])

\* One call of create_persona, with the names of a template and numbers on
\* both sides of every validated bound.
InitPersona ==
    /\ brackets = BRACKETS_2024
    /\ call = [op |-> "none", income |-> 0, status |-> "single", out |-> NotCalled]
    /\ eti = NotCalled
    /\ lab = NotCalled
    /\ exp \in {[op |-> "create_persona", name |-> t.name, occupation |-> t.occupation,
                 filing_status |-> t.filing_status, wage_income |-> wage_income,
                 other_income |-> other_income, num_dependents |-> num_dependents,
                 is_self_employed |-> t.is_self_employed, age |-> age,
                 out |-> NotCalled] :
                    t \in PERSONA_TEMPLATES, wage_income \in {-10000, -1, 0, 95000},
                    other_income \in {-1, 0, 5000}, num_dependents \in {-1, 0, 2},
                    age \in {-1, 0, 32, 120, 121}}

CreatePersona ==
    /\ exp.op = "create_persona" /\ exp.out = NotCalled
    /\ exp' = [exp EXCEPT !.out = create_persona(exp.name, exp.occupation,
                                                 exp.filing_status, exp.wage_income,
                                                 exp.other_income, exp.num_dependents,
                                                 exp.is_self_employed, exp.age)]
    /\ UNCHANGED <<brackets, call, eti, lab>>

SpecPersona == InitPersona /\ [][CreatePersona]_vars

(***************************************************************************)
(* C24: the validation of create_persona.                                  *)
(***************************************************************************)
PersonaFields ==
    {"name", "occupation", "filing_status", "wage_income", "other_income",
     "num_dependents", "is_self_employed", "age"}

\* C24: create_persona raises ValueError('Income cannot be negative') for a
\* negative wage_income or other_income, else ValueError('Dependents cannot
\* be negative') for negative num_dependents, else ValueError for an age
\* outside [0, 120]; otherwise it returns a Persona whose fields are the
\* arguments and whose total_income is wage_income + other_income.  Every
\* Persona it returns has non-negative incomes and dependents.
C24_CreatePersonaValidates ==
    (exp.op = "create_persona" /\ exp.out # NotCalled) =>
        LET NegativeIncome == exp.wage_income < 0 \/ exp.other_income < 0
            NegativeDependents == exp.num_dependents < 0
            BadAge == exp.age < 0 \/ exp.age > 120
        IN  /\ NegativeIncome =>
                /\ exp.out.kind = "raise" /\ exp.out.exc = "ValueError"
                /\ exp.out.val = <<"Income cannot be negative">>
            /\ (NegativeDependents /\ ~NegativeIncome) =>
                /\ exp.out.kind = "raise" /\ exp.out.exc = "ValueError"
                /\ exp.out.val = <<"Dependents cannot be negative">>
            /\ BadAge => exp.out.kind = "raise" /\ exp.out.exc = "ValueError"
            /\ ~(NegativeIncome \/ NegativeDependents \/ BadAge) =>
                /\ exp.out.kind = "value"
                /\ \A f \in PersonaFields : exp.out.val[1][f] = exp[f]
                /\ Persona_total_income(exp.out.val[1])
                       = exp.wage_income + exp.other_income
            /\ exp.out.kind = "value" =>
                /\ exp.out.val[1].wage_income >= 0
                /\ exp.out.val[1].other_income >= 0
                /\ exp.out.val[1].num_dependents >= 0

\* The persona of test_create_persona_basic has been created.
C24_Witness ==
    /\ exp.op = "create_persona" /\ exp.out.kind = "value"
    /\ exp.name = "Alex Chen" /\ exp.wage_income = 95000 /\ exp.other_income = 5000
    /\ Persona_total_income(exp.out.val[1]) = 100000

(***************************************************************************)
(* C25: an undefined ETI in the rows of run_survey_experiment.             *)
(***************************************************************************)
\* The answer of the client to its k-th call.
AnswerTo(k) == exp.client[((k - 1) % Len(exp.client)) + 1]

\* The category the text of an answer names, <<>> if it names none.
CategoryOf(answer) ==
    IF answer.response = <<SomewhatLower>> THEN <<"somewhat_lower">>
    ELSE IF answer.response = <<MuchHigherWords>> THEN <<"much_higher">>
    ELSE <<>>

\* C25: every answered call of run_survey_experiment has its row, also when
\* the response cannot be parsed or the ETI is undefined; the row's
\* implied_eti is a number exactly when the response parses to a category
\* and the scenario's new rate differs from its current rate (which is
\* never 1), and None otherwise, never 0 in its place.
C25_UndefinedEtiIsNoneInRow ==
    Running =>
        /\ Len(exp.results) = Cardinality({k \in 1..Len(exp.calls) : AnswerTo(k).kind # "raise"})
        /\ \A k \in 1..Len(exp.results) :
               LET row == exp.results[k]
                   category == CategoryOf(AnswerTo(k))
                   defined == category # <<>> /\ row.new_rate # row.current_rate
               IN  /\ row.parsed_response = category
                   /\ row.current_rate # 100
                   /\ defined <=> row.implied_eti.kind = "value"
                   /\ ~defined => row.implied_eti = ReturnNone

\* A finished run with a row for an unparsed response, a row for a parsed
\* response without a rate change and a row with a number.
C25_Witness ==
    /\ Running /\ exp.pc = "done" /\ exp.out.kind = "value"
    /\ \E k \in 1..Len(exp.results) :
           /\ exp.results[k].parsed_response = <<>>
           /\ exp.results[k].implied_eti = ReturnNone
    /\ \E k \in 1..Len(exp.results) :
           /\ exp.results[k].parsed_response # <<>>
           /\ exp.results[k].new_rate = exp.results[k].current_rate
           /\ exp.results[k].implied_eti = ReturnNone
    /\ \E k \in 1..Len(exp.results) : exp.results[k].implied_eti.kind = "value"

(***************************************************************************)
(* pknf_types.py: Treatment.  A member is its name, label and the two      *)
(* schedules; the members are in definition order.                         *)
(***************************************************************************)
Treatment ==
    <<[name |-> "CONTROL", label |-> "Prog,Prog",
       pre_reform |-> "progressive", post_reform |-> "progressive"],
      [name |-> "PROG_TO_FLAT25", label |-> "Prog,Flat25",
       pre_reform |-> "progressive", post_reform |-> "flat25"],
      [name |-> "PROG_TO_FLAT50", label |-> "Prog,Flat50",
       pre_reform |-> "progressive", post_reform |-> "flat50"],
      [name |-> "FLAT25_TO_PROG", label |-> "Flat25,Prog",
       pre_reform |-> "flat25", post_reform |-> "progressive"],
      [name |-> "FLAT50_TO_PROG", label |-> "Flat50,Prog",
       pre_reform |-> "flat50", post_reform |-> "progressive"]>>

Treatment_from_label(label) ==
    IF \E i \in 1..Len(Treatment) : Treatment[i].label = label
    THEN Value(Treatment[CHOOSE i \in 1..Len(Treatment) :
                   /\ Treatment[i].label = label
                   /\ \A j \in 1..(i - 1) : Treatment[j].label # label])
    ELSE Raise("ValueError")

\* Mutant: round 8 is already after the reform.
get_schedule_for_round_early(self, round_num) ==
    IF round_num < 1 \/ round_num > 16 THEN Raise("ValueError")
    ELSE IF round_num < 8 THEN Value(self.pre_reform)
    ELSE Value(self.post_reform)

get_schedule_for_round(self, round_num) ==
    IF round_num < 1 \/ round_num > 16 THEN Raise("ValueError")
    ELSE IF round_num <= 8 THEN Value(self.pre_reform)
    ELSE Value(self.post_reform)

(***************************************************************************)
(* simulation_engine.py: TaxSimulation.  Incomes are whole numbers, rates  *)
(* are in percent; the client is a script of what run_batch_surveys does   *)
(* call after call: a list of results, a list with a result that lacks     *)
(* its answer, or an exception.                                            *)
(***************************************************************************)
MaxIncomeSteps == 1
MaxRateSteps == 2

\* np.arange(start, stop, step) for step > 0
RECURSIVE arange(_, _, _)
arange(start, stop, step) ==
    IF start >= stop THEN <<>> ELSE <<start>> \o arange(start + step, stop, step)

\* Mutant: an exception of the survey is not caught.
run_single_simulation_uncaught(self, broad_income, prior_rate, new_rate, answer) ==
    LET taxable_income == (broad_income * self.taxable_income_ratio) \div 100
    IN  IF answer.kind # "results" THEN Raise("Exception")
        ELSE Value([i \in 1..self.responses_per_rate |->
                       [broad_income |-> broad_income,
                        prior_taxable_income |-> taxable_income,
                        prior_rate |-> prior_rate, new_rate |-> new_rate,
                        response_number |-> i,
                        parsed_income |-> answer.taxable_income_this,
                        implied_eti |-> ReturnNone,
                        model |-> self.model]])

\* run_single_simulation when run_batch_surveys does what answer says: the
\* rows, or [] after an exception of the survey or of the formatting.
run_single_simulation(self, broad_income, prior_rate, new_rate, answer) ==
    LET taxable_income == (broad_income * self.taxable_income_ratio) \div 100
    IN  IF answer.kind # "results" THEN Value(<<>>)
        ELSE Value([i \in 1..self.responses_per_rate |->
                       [broad_income |-> broad_income,
                        prior_taxable_income |-> taxable_income,
                        prior_rate |-> prior_rate, new_rate |-> new_rate,
                        response_number |-> i,
                        parsed_income |-> answer.taxable_income_this,
                        implied_eti |-> ReturnNone,
                        model |-> self.model]])

(***************************************************************************)
(* simulation_engine.py and simulation_engine_edsl.py:                     *)
(* LabExperimentSimulation.run_experiment.  The client is a script of what *)
(* run_batch_surveys returns call after call: a list with one result, or   *)
(* an empty list.                                                          *)
(***************************************************************************)
MaxSubjects == 1
ReformRound == 8

\* The n-th number np.random.randint(low, high) draws after seeding.
randint(seed, low, high, n) == low + ((seed + 7 * n) % (high - low))

\* treatment_map of simulation_engine_edsl.py, in the order of the dict.
treatment_map ==
    <<[treatment_name |-> "Prog,Prog", schedules |-> <<"progressive", "progressive">>],
      [treatment_name |-> "Prog,Flat25", schedules |-> <<"progressive", "flat25">>],
      [treatment_name |-> "Prog,Flat50", schedules |-> <<"progressive", "flat50">>],
      [treatment_name |-> "Flat25,Prog", schedules |-> <<"flat25", "progressive">>],
      [treatment_name |-> "Flat50,Prog", schedules |-> <<"flat50", "progressive">>]>>

\* The body of the round loop of simulation_engine.py for a known label:
\* the scenario given to the client and the rows appended, or the
\* ValueError of get_schedule_for_round.
LabRound(self, treatment_label, subject_id, round_idx, results) ==
    LET treatment == Treatment_from_label(treatment_label).val[1]
        round_num == round_idx + 1
        schedule == get_schedule_for_round(treatment, round_num)
        labor_endowment ==
            randint(self.seed, LaborEndowmentMin, LaborEndowmentMax + 1,
                    subject_id * self.rounds + round_idx)
    IN  IF schedule.kind = "raise" THEN schedule
        ELSE Value([scenario |-> [round_num |-> round_num,
                                  tax_schedule |-> schedule.val[1],
                                  labor_endowment |-> labor_endowment,
                                  wage_per_unit |-> <<WagePerUnit>>],
                    rows |-> IF results = <<>> THEN <<>>
                             ELSE <<[treatment |-> treatment.label,
                                     subject_id |-> subject_id,
                                     round |-> round_num,
                                     tax_schedule |-> schedule.val[1],
                                     labor_endowment |-> labor_endowment,
                                     labor_supply |-> results[1].labor_supply_this,
                                     income |-> results[1].labor_supply_this * WagePerUnit,
                                     post_reform |-> round_num > ReformRound,
                                     model |-> self.model]>>])

\* Mutant: round 9 (round_num = 8) still has the first schedule.
LabRoundEdslLate(self, treatment_name, subject_id, round_num, results) ==
    LET entry == treatment_map[CHOOSE i \in 1..Len(treatment_map) :
                                   treatment_map[i].treatment_name = treatment_name]
        schedule == IF round_num <= 8 THEN entry.schedules[1] ELSE entry.schedules[2]
        labor_endowment == randint(self.seed, 14, 31, subject_id * self.rounds + round_num)
    IN  Value([scenario |-> [round_num |-> round_num + 1,
                             tax_schedule |-> schedule,
                             labor_endowment |-> labor_endowment,
                             wage_per_unit |-> <<>>],
               rows |-> IF results = <<>> THEN <<>>
                        ELSE <<[treatment |-> treatment_name,
                                subject_id |-> subject_id,
                                round_num |-> round_num + 1,
                                tax_schedule |-> schedule,
                                labor_endowment |-> labor_endowment,
                                labor_supply |-> results[1].labor_supply_this,
                                income |-> results[1].labor_supply_this * 20,
                                post_reform |-> round_num >= 8,
                                model |-> self.model]>>])

\* The body of the round loop of simulation_engine_edsl.py, round_num
\* counting from 0.
LabRoundEdsl(self, treatment_name, subject_id, round_num, results) ==
    LET entry == treatment_map[CHOOSE i \in 1..Len(treatment_map) :
                                   treatment_map[i].treatment_name = treatment_name]
        schedule == IF round_num < 8 THEN entry.schedules[1] ELSE entry.schedules[2]
        labor_endowment == randint(self.seed, 14, 31, subject_id * self.rounds + round_num)
    IN  Value([scenario |-> [round_num |-> round_num + 1,
                             tax_schedule |-> schedule,
                             labor_endowment |-> labor_endowment,
                             wage_per_unit |-> <<>>],
               rows |-> IF results = <<>> THEN <<>>
                        ELSE <<[treatment |-> treatment_name,
                                subject_id |-> subject_id,
                                round_num |-> round_num + 1,
                                tax_schedule |-> schedule,
                                labor_endowment |-> labor_endowment,
                                labor_supply |-> results[1].labor_supply_this,
                                income |-> results[1].labor_supply_this * 20,
                                post_reform |-> round_num >= 8,
                                model |-> self.model]>>])

(***************************************************************************)
(* Calls of the simulation engines and of Treatment.  from_label is called *)
(* once with a label; get_schedule_for_round is called for one treatment   *)
(* round after round, from round FirstRound to round LastRound;            *)
(* run_bulk_simulation is called once, with ranges of at most              *)
(* MaxIncomeSteps + 1 incomes and MaxRateSteps + 1 rates; run_experiment   *)
(* of either engine is called once, with a list of labels, 16 rounds (the  *)
(* default) or 17, and at most MaxSubjects subjects.                       *)
(***************************************************************************)
RoundsBelow == 2
FirstRound == 1 - RoundsBelow
LastRound == 18

SimCalls ==
    {[op |-> "from_label", label |-> label, out |-> NotCalled] :
        label \in {Treatment[i].label : i \in 1..Len(Treatment)}
                      \cup {"Flat25,Flat50", "prog,prog", "CONTROL", ""}}
    \cup
    {[op |-> "get_schedule_for_round", treatment |-> Treatment[i],
      round_num |-> FirstRound - 1, out |-> NotCalled] : i \in 1..Len(Treatment)}
    \cup
    {[op |-> "run_bulk_simulation", model |-> "gpt-4o-mini",
      taxable_income_ratio |-> 75, responses_per_rate |-> responses_per_rate,
      min_rate |-> 15, max_rate |-> 15 + 2 * r, step_size |-> 2,
      min_income |-> 50000, max_income |-> 50000 + 10000 * n,
      income_step |-> 10000, prior_rate |-> 25, client |-> client,
      pc |-> "pending", income_ranges |-> <<>>, tax_rates |-> <<>>, i |-> 0, j |-> 0,
      calls |-> <<>>, all_results |-> <<>>, out |-> NotCalled] :
        responses_per_rate \in 1..2, r \in -1..MaxRateSteps, n \in 0..MaxIncomeSteps,
        client \in {<<[kind |-> "results", taxable_income_this |-> 70000]>>,
                    <<[kind |-> "results", taxable_income_this |-> 70000],
                      [kind |-> "raise"]>>,
                    <<[kind |-> "raise"],
                      [kind |-> "results", taxable_income_this |-> 36000],
                      [kind |-> "no answer"]>>}}
    \cup
    {[op |-> "run_experiment", engine |-> engine, model |-> "gpt-4o-mini",
      treatments |-> treatments, rounds |-> rounds,
      subjects_per_treatment |-> subjects_per_treatment, seed |-> seed,
      client |-> client, pc |-> "pending", plan |-> <<>>, t |-> 0, subject_id |-> 0,
      round_idx |-> 0, calls |-> <<>>, all_results |-> <<>>, out |-> NotCalled] :
        engine \in {"simulation_engine", "simulation_engine_edsl"},
        treatments \in {<<treatment_map[i].treatment_name>> : i \in 1..Len(treatment_map)}
                           \cup {<<>>, <<"Flat25,Flat50">>,
                                 <<"Flat50,Prog", "Prog,Prog">>,
                                 <<"Prog,Flat50", "Prog,Flat50">>,
                                 <<"Flat25,Flat50", "Prog,Flat25">>},
        rounds \in {Rounds, Rounds + 1},
        subjects_per_treatment \in 0..MaxSubjects, seed \in {0, 5},
        client \in {<<<<[labor_supply_this |-> 20]>>>>,
                    <<<<[labor_supply_this |-> 14]>>, <<>>,
                      <<[labor_supply_this |-> 21]>>>>}}

InitSim ==
    /\ brackets = BRACKETS_2024
    /\ call = [op |-> "none", income |-> 0, status |-> "single", out |-> NotCalled]
    /\ eti = NotCalled
    /\ lab \in SimCalls
    /\ exp = NotCalled

FromLabel ==
    /\ lab.op = "from_label" /\ lab.out = NotCalled
    /\ lab' = [lab EXCEPT !.out = Treatment_from_label(lab.label)]
    /\ UNCHANGED <<brackets, call, eti, exp>>

\* The call for the round after the one of the last call.
GetScheduleForRound ==
    /\ lab.op = "get_schedule_for_round" /\ lab.round_num < LastRound
    /\ lab' = [lab EXCEPT !.round_num = @ + 1,
                          !.out = get_schedule_for_round(lab.treatment, lab.round_num + 1)]
    /\ UNCHANGED <<brackets, call, eti, exp>>

\* run_bulk_simulation from its entry to its first run_single_simulation,
\* or to its return when a range is empty.
RunBulkSimulation ==
    /\ lab.op = "run_bulk_simulation" /\ lab.pc = "pending"
    /\ LET income_ranges == arange(lab.min_income, lab.max_income + lab.income_step,
                                   lab.income_step)
           tax_rates == arange(lab.min_rate, lab.max_rate + lab.step_size,
                               lab.step_size)
       IN  IF income_ranges = <<>> \/ tax_rates = <<>>
           THEN lab' = [lab EXCEPT !.pc = "done", !.income_ranges = income_ranges,
                                   !.tax_rates = tax_rates, !.out = Value(<<>>)]
           ELSE lab' = [lab EXCEPT !.pc = "calling", !.income_ranges = income_ranges,
                                   !.tax_rates = tax_rates, !.i = 1, !.j = 1]
    /\ UNCHANGED <<brackets, call, eti, exp>>

\* One pass of the inner loop of run_bulk_simulation: run_single_simulation
\* for the pair, all_results.extend(results), then the next pair or the
\* return.
RunSingleSimulation ==
    /\ lab.op = "run_bulk_simulation" /\ lab.pc = "calling"
    /\ LET answer == lab.client[(Len(lab.calls) % Len(lab.client)) + 1]
           broad_income == lab.income_ranges[lab.i]
           rate == lab.tax_rates[lab.j]
           results == run_single_simulation(lab, broad_income, lab.prior_rate, rate,
                                            answer)
           calls == Append(lab.calls, [broad_income |-> broad_income,
                                       new_rate |-> rate, results |-> results])
       IN  IF results.kind = "raise"
           THEN lab' = [lab EXCEPT !.pc = "done", !.calls = calls, !.out = results]
           ELSE LET all_results == lab.all_results \o results.val[1]
                IN  IF lab.j < Len(lab.tax_rates)
                    THEN lab' = [lab EXCEPT !.calls = calls, !.j = @ + 1,
                                            !.all_results = all_results]
                    ELSE IF lab.i < Len(lab.income_ranges)
                    THEN lab' = [lab EXCEPT !.calls = calls, !.i = @ + 1, !.j = 1,
                                            !.all_results = all_results]
                    ELSE lab' = [lab EXCEPT !.pc = "done", !.calls = calls,
                                            !.all_results = all_results,
                                            !.out = Value(all_results)]
    /\ UNCHANGED <<brackets, call, eti, exp>>

\* run_experiment of either engine from its entry to its first survey, or
\* to its return when there is nothing to run.  plan is the list of the
\* labels its outer loop runs: the known ones of treatments in their order,
\* or the names of treatment_map that are in treatments.
RunExperiment ==
    /\ lab.op = "run_experiment" /\ lab.pc = "pending"
    /\ LET Known(label) == Treatment_from_label(label).kind = "value"
           Listed(i) == \E n \in 1..Len(lab.treatments) :
                            lab.treatments[n] = treatment_map[i].treatment_name
           listed == SelectSeq([i \in 1..Len(treatment_map) |-> i], Listed)
           plan == IF lab.engine = "simulation_engine"
                   THEN SelectSeq(lab.treatments, Known)
                   ELSE [n \in 1..Len(listed) |-> treatment_map[listed[n]].treatment_name]
       IN  IF plan = <<>> \/ lab.subjects_per_treatment = 0 \/ lab.rounds = 0
           THEN lab' = [lab EXCEPT !.pc = "done", !.plan = plan, !.out = Value(<<>>)]
           ELSE lab' = [lab EXCEPT !.pc = "calling", !.plan = plan, !.t = 1,
                                   !.subject_id = 0, !.round_idx = 0]
    /\ UNCHANGED <<brackets, call, eti, exp>>

\* One pass of the round loop: the schedule of the round, the survey, the
\* row if there is a result, then the next round, subject or treatment, or
\* the return.
SurveyRound ==
    /\ lab.op = "run_experiment" /\ lab.pc = "calling"
    /\ LET results == lab.client[(Len(lab.calls) % Len(lab.client)) + 1]
           round == IF lab.engine = "simulation_engine"
                    THEN LabRound(lab, lab.plan[lab.t], lab.subject_id, lab.round_idx,
                                  results)
                    ELSE LabRoundEdsl(lab, lab.plan[lab.t], lab.subject_id,
                                      lab.round_idx, results)
       IN  IF round.kind = "raise"
           THEN lab' = [lab EXCEPT !.pc = "done", !.out = round]
           ELSE LET calls == Append(lab.calls,
                                    [t |-> lab.t, treatment_label |-> lab.plan[lab.t],
                                     subject_id |-> lab.subject_id,
                                     round_idx |-> lab.round_idx,
                                     results |-> results,
                                     scenario |-> round.val[1].scenario,
                                     rows |-> round.val[1].rows])
                    all_results == lab.all_results \o round.val[1].rows
                IN  IF lab.round_idx + 1 < lab.rounds
                    THEN lab' = [lab EXCEPT !.calls = calls, !.all_results = all_results,
                                            !.round_idx = @ + 1]
                    ELSE IF lab.subject_id + 1 < lab.subjects_per_treatment
                    THEN lab' = [lab EXCEPT !.calls = calls, !.all_results = all_results,
                                            !.subject_id = @ + 1, !.round_idx = 0]
                    ELSE IF lab.t < Len(lab.plan)
                    THEN lab' = [lab EXCEPT !.calls = calls, !.all_results = all_results,
                                            !.t = @ + 1, !.subject_id = 0,
                                            !.round_idx = 0]
                    ELSE lab' = [lab EXCEPT !.pc = "done", !.calls = calls,
                                            !.all_results = all_results,
                                            !.out = Value(all_results)]
    /\ UNCHANGED <<brackets, call, eti, exp>>

NextSim ==
    \/ FromLabel
    \/ GetScheduleForRound
    \/ RunBulkSimulation
    \/ RunSingleSimulation
    \/ RunExperiment
    \/ SurveyRound

SpecSim == InitSim /\ [][NextSim]_vars

(***************************************************************************)
(* C26: the schedule of a treatment round by round, and from_label.        *)
(***************************************************************************)
\* The schedule of a round: the pre-reform schedule in rounds 1..8, the
\* post-reform schedule in rounds 9..16, ValueError for any other round.
ScheduleOfRound ==
    (lab.op = "get_schedule_for_round" /\ lab.out # NotCalled) =>
        /\ lab.round_num \in 1..8 => lab.out = Value(lab.treatment.pre_reform)
        /\ lab.round_num \in 9..16 => lab.out = Value(lab.treatment.post_reform)
        /\ lab.round_num \notin 1..16 => lab.out = Raise("ValueError")

\* From one round to the next the schedule changes only between round 8 and
\* round 9, and never for CONTROL.
ScheduleChangesAtReformOnly ==
    (/\ lab.op = "get_schedule_for_round"
     /\ lab.out.kind = "value" /\ lab'.out.kind = "value"
     /\ lab'.out # lab.out)
        => (/\ lab.round_num = 8 /\ lab'.round_num = 9
            /\ lab.treatment.name # "CONTROL")

\* from_label(t.label) is t for every treatment t, and from_label raises
\* ValueError for any other label.
FromLabelInvertsLabel ==
    (lab.op = "from_label" /\ lab.out # NotCalled) =>
        /\ \A i \in 1..Len(Treatment) :
               lab.label = Treatment[i].label => lab.out = Value(Treatment[i])
        /\ (\A i \in 1..Len(Treatment) : lab.label # Treatment[i].label)
               => lab.out = Raise("ValueError")

\* C26: for every treatment get_schedule_for_round returns the pre-reform
\* schedule for rounds 1..8 and the post-reform schedule for rounds 9..16
\* and raises ValueError for any other round; over the rounds the schedule
\* changes at most once, between round 8 and round 9, and never for
\* CONTROL; from_label(t.label) = t for every treatment and from_label
\* raises ValueError for any other label.
C26_ScheduleByRoundAndFromLabel ==
    /\ [](ScheduleOfRound /\ FromLabelInvertsLabel)
    /\ [][ScheduleChangesAtReformOnly]_vars

\* Round 9 of a treatment with two different schedules has been asked for
\* after round 8.
C26_Witness ==
    /\ lab.op = "get_schedule_for_round" /\ lab.round_num = 9
    /\ lab.treatment = Treatment_from_label("Flat50,Prog").val[1]
    /\ lab.out = Value("progressive")

(***************************************************************************)
(* C27: the pairs of run_bulk_simulation.                                  *)
(***************************************************************************)
Bulk == lab.op = "run_bulk_simulation" /\ lab.pc # "pending"

\* The incomes and the new rates of a run, from its arguments.
BulkIncomes == {lab.min_income + k * lab.income_step : k \in 0..MaxIncomeSteps + 1}
                   \cap lab.min_income..lab.max_income
BulkRates == {lab.min_rate + k * lab.step_size : k \in 0..MaxRateSteps + 1}
                 \cap lab.min_rate..lab.max_rate

\* The rows of all_results that are of the k-th call.
RowsBefore(k) == SumTo([n \in 1..Len(lab.calls) |-> Len(lab.calls[n].results.val[1])], k - 1)

\* C27: run_bulk_simulation calls run_single_simulation once for every
\* (income, new rate) pair of the two ranges, incomes in the outer loop and
\* rates in the inner one; a pair whose survey raises contributes no row,
\* the run goes on with the next pair, and the rows of the other pairs are
\* kept, in the order of the calls, in the table returned.
C27_EveryPairOnceAndErrorsSkipped ==
    Bulk =>
        /\ \A k \in 1..Len(lab.calls) :
               LET c == lab.calls[k]
                   answer == lab.client[((k - 1) % Len(lab.client)) + 1]
               IN  /\ c.broad_income \in BulkIncomes /\ c.new_rate \in BulkRates
                   /\ \A n \in 1..(k - 1) :
                          \/ lab.calls[n].broad_income < c.broad_income
                          \/ /\ lab.calls[n].broad_income = c.broad_income
                             /\ lab.calls[n].new_rate < c.new_rate
                   /\ c.results.kind = "value"
                   /\ Len(c.results.val[1]) =
                          IF answer.kind = "results" THEN lab.responses_per_rate ELSE 0
                   /\ \A i \in 1..Len(c.results.val[1]) :
                          /\ lab.all_results[RowsBefore(k) + i] = c.results.val[1][i]
                          /\ c.results.val[1][i].broad_income = c.broad_income
                          /\ c.results.val[1][i].new_rate = c.new_rate
        /\ Len(lab.all_results) = RowsBefore(Len(lab.calls) + 1)
        /\ lab.pc = "done" =>
               /\ lab.out = Value(lab.all_results)
               /\ \A income \in BulkIncomes, rate \in BulkRates :
                      \E k \in 1..Len(lab.calls) :
                          /\ lab.calls[k].broad_income = income
                          /\ lab.calls[k].new_rate = rate

\* A finished run in which a pair raised, a later pair gave rows and rows
\* collected before the exception are in the table.
C27_Witness ==
    /\ Bulk /\ lab.pc = "done" /\ Len(lab.calls) >= 3
    /\ Len(lab.calls[1].results.val[1]) > 0
    /\ lab.calls[2].results = Value(<<>>)
    /\ Len(lab.calls[3].results.val[1]) > 0
    /\ Len(lab.out.val[1]) >= 2

(***************************************************************************)
(* tax_utils.py: calculate_eti, the copy without a try block.              *)
(***************************************************************************)
tax_utils_calculate_eti(initial_rate, new_rate, initial_income, new_income) ==
    LET percent_change_income ==
            PyDiv(FSub(new_income[1], initial_income[1]), initial_income[1])
        percent_change_net_of_tax_rate ==
            PyDiv(FSub(FSub(FInt(1), new_rate), FSub(FInt(1), initial_rate)),
                  FSub(FInt(1), initial_rate))
    IN  IF percent_change_income.kind = "raise" THEN percent_change_income
        ELSE IF percent_change_net_of_tax_rate.kind = "raise"
        THEN percent_change_net_of_tax_rate
        ELSE PyDiv(percent_change_income.val[1],
                   percent_change_net_of_tax_rate.val[1])

\* One call of tax_utils.calculate_eti with numbers.
InitTaxUtils ==
    /\ brackets = BRACKETS_2024
    /\ call = [op |-> "none", income |-> 0, status |-> "single", out |-> NotCalled]
    /\ eti \in [op : {"tax_utils.calculate_eti"},
                initial_rate : Rates, new_rate : Rates,
                initial_income : InitialIncomes, new_income : NewIncomes \ {<<>>},
                response : {"-"}, out : {NotCalled}]
    /\ lab = NotCalled
    /\ exp = NotCalled

TaxUtilsCalculateEti ==
    /\ eti.op = "tax_utils.calculate_eti" /\ eti.out = NotCalled
    /\ eti' = [eti EXCEPT !.out =
                  tax_utils_calculate_eti(eti.initial_rate, eti.new_rate,
                                          eti.initial_income, eti.new_income)]
    /\ UNCHANGED <<brackets, call, lab, exp>>

SpecTaxUtils == InitTaxUtils /\ [][TaxUtilsCalculateEti]_vars

(***************************************************************************)
(* C28: the three copies of calculate_eti.                                 *)
(***************************************************************************)
\* C28: tax_utils.calculate_eti, GPTClient.calculate_eti and
\* EDSLClient.calculate_eti give the same outcome for every numeric input,
\* also the 'no value' outcome where the ETI is undefined (initial_income
\* = 0, initial_rate = 1, new_rate = initial_rate).
C28_CopiesInterchangeable ==
    (eti.op = "tax_utils.calculate_eti" /\ eti.out # NotCalled) =>
        /\ SameOutcome(eti.out, GPTClient_calculate_eti(eti.initial_rate, eti.new_rate,
                                                        eti.initial_income, eti.new_income))
        /\ SameOutcome(eti.out, EDSLClient_calculate_eti(eti.initial_rate, eti.new_rate,
                                                         eti.initial_income, eti.new_income))

(***************************************************************************)
(* C29: the two engines agree round by round.                              *)
(***************************************************************************)
Experiment == lab.op = "run_experiment"

\* The round number a row records: key "round" in simulation_engine.py,
\* key "round_num" in simulation_engine_edsl.py.
RoundOf(row) == IF "round" \in DOMAIN row THEN row.round ELSE row.round_num

\* What the other engine's round loop does on the arguments of call c.
OtherEngine(c) ==
    IF lab.engine = "simulation_engine"
    THEN LabRoundEdsl(lab, c.treatment_label, c.subject_id, c.round_idx, c.results)
    ELSE LabRound(lab, c.treatment_label, c.subject_id, c.round_idx, c.results)

\* In rounds 1..16 the other engine presents the same schedule for the same
\* round and records the same post_reform flag.
SameScheduleAndFlag(c) ==
    LET other == OtherEngine(c)
    IN  /\ other.kind = "value"
        /\ other.val[1].scenario.round_num = c.scenario.round_num
        /\ other.val[1].scenario.tax_schedule = c.scenario.tax_schedule
        /\ Len(other.val[1].rows) = Len(c.rows)
        /\ \A n \in 1..Len(c.rows) :
               /\ RoundOf(other.val[1].rows[n]) = RoundOf(c.rows[n])
               /\ other.val[1].rows[n].tax_schedule = c.rows[n].tax_schedule
               /\ other.val[1].rows[n].post_reform = c.rows[n].post_reform

\* The flag of a row is true exactly in rounds 9..16, and the schedule of
\* the row is then the one the treatment prescribes after the reform, and
\* the one it prescribes before the reform otherwise.
FlagTellsPostReformSchedule(c) ==
    LET treatment == Treatment_from_label(c.treatment_label).val[1]
    IN  \A n \in 1..Len(c.rows) :
            /\ c.rows[n].post_reform <=> RoundOf(c.rows[n]) \in (ReformRound + 1)..Rounds
            /\ c.rows[n].tax_schedule = IF c.rows[n].post_reform
                                        THEN treatment.post_reform
                                        ELSE treatment.pre_reform

\* The rows are in the order of the surveys, and the rows of one subject,
\* one pass of the subject loop, are in ascending round order.
RowsInRoundOrder ==
    LET Pos(k) == Cardinality({j \in 1..k : lab.calls[j].rows # <<>>})
    IN  /\ Len(lab.all_results) = Pos(Len(lab.calls))
        /\ \A k \in 1..Len(lab.calls) :
               lab.calls[k].rows # <<>> => lab.all_results[Pos(k)] = lab.calls[k].rows[1]
        /\ \A a \in 1..Len(lab.calls) : \A b \in 1..Len(lab.calls) :
               (/\ a < b
                /\ lab.calls[a].t = lab.calls[b].t
                /\ lab.calls[a].subject_id = lab.calls[b].subject_id
                /\ lab.calls[a].rows # <<>> /\ lab.calls[b].rows # <<>>)
                   => RoundOf(lab.calls[a].rows[1]) < RoundOf(lab.calls[b].rows[1])

\* C29: for each of the five labels and each round 1..16, run_experiment of
\* simulation_engine.py and of simulation_engine_edsl.py present the same
\* tax schedule and record the same post_reform flag, the flag is true
\* exactly in rounds 9..16, where the schedule is the treatment's
\* post-reform one, and the rows of a subject come in ascending round order.
C29_EnginesAgreeRoundByRound ==
    Experiment =>
        /\ \A k \in 1..Len(lab.calls) :
               lab.calls[k].round_idx + 1 \in 1..Rounds =>
                   /\ SameScheduleAndFlag(lab.calls[k])
                   /\ FlagTellsPostReformSchedule(lab.calls[k])
        /\ RowsInRoundOrder

\* An engine has run all rounds 1..16 of a treatment that changes its
\* schedule at the reform, with rows before and after the reform.
C29_Witness ==
    /\ Experiment /\ lab.pc = "done" /\ lab.rounds = Rounds
    /\ lab.plan = <<"Flat50,Prog", "Prog,Prog">>
    /\ lab.out.kind = "value"
    /\ \E a \in 1..Len(lab.all_results) : \E b \in 1..Len(lab.all_results) :
           /\ lab.all_results[a].treatment = "Flat50,Prog"
           /\ lab.all_results[b].treatment = "Flat50,Prog"
           /\ RoundOf(lab.all_results[a]) = ReformRound
           /\ ~lab.all_results[a].post_reform
           /\ lab.all_results[a].tax_schedule = "flat50"
           /\ RoundOf(lab.all_results[b]) = ReformRound + 1
           /\ lab.all_results[b].post_reform
           /\ lab.all_results[b].tax_schedule = "progressive"

====
